---- MODULE Spec2Model ----
(***************************************************************************)
(* Verification model of swimmer's cluster access layer and terminal       *)
(* sessions (src-tauri/src/k8s_api.rs, src-tauri/src/lib.rs,               *)
(* src-tauri/src/mock_client.rs, src-tauri/src/terminal.rs).               *)
(*                                                                         *)
(*   Spec          the client pool: commands that read the kubeconfig path *)
(*                 and run get_or_create_raw_client, concurrently with     *)
(*                 set_kubeconfig_path and with the passing of time.       *)
(*   SpecDispatch  list_resources / get_resource_detail / delete_resource  *)
(*                 of the real provider against an API server.             *)
(*   SpecSerialize the same commands against a cluster that holds objects  *)
(*                 of which serde_json::to_value fails.                    *)
(*   SpecParse     the custom-resource kind token ("cr:g/v/p/scope").      *)
(*   SpecWatch     start_watch_resources, stop_watch_resources and the     *)
(*                 tasks of run_watcher; SpecWatchIdle: the same with      *)
(*                 streams that deliver nothing, under fairness.           *)
(*   SpecCrd       list_crd_groups on the CRDs of one listing.             *)
(*   SpecRollout   rollout_restart_deployment on the Deployments of a      *)
(*                 cluster.                                                *)
(*   SpecMock      get_or_create_client and start_watch_resources with     *)
(*                 USE_MOCK set or not, and the lists of MockK8sClient.    *)
(*   SpecContextId parse_context_id.                                       *)
(*   SpecStats     get_cluster_stats on the listings of one call.          *)
(*   SpecSwitch    the client pool with commands called with or without a  *)
(*                 context, no time passing.                               *)
(*   SpecLocks     the order in which the commands lock and drop the       *)
(*                 kubeconfig path and the pool, under fairness.           *)
(*   SpecKeep      a watch started on a pooled client, next to the switch  *)
(*                 of the path and the sweep of the pool.                  *)
(*   SpecTerminal  create_terminal_session, write_to_terminal and          *)
(*                 close_terminal_session; SpecTerminalFair: the same      *)
(*                 under fairness.                                         *)
(***************************************************************************)
EXTENDS Integers, Sequences, FiniteSets, TLC

VARIABLES now, kubeconfig_path, path_lock, pool, constructions, procs, lastRet,
          cluster, resp,
          token,
          uuids, starts, tasks, registry, stopping, emitted, returned, stopped,
          invoked,
          guards, threads,
          sessions, temp_files, sessions_guard, commands, killed, session_ids

cacheVars == <<now, kubeconfig_path, path_lock, pool, constructions, procs, lastRet>>
dispatchVars == <<cluster, resp>>
parseVars == <<token>>
watchVars == <<uuids, starts, tasks, registry, stopping, emitted, returned, stopped>>
callVars == <<invoked>>
lockVars == <<guards, threads>>
terminalVars == <<sessions, temp_files, sessions_guard, commands, killed, session_ids>>
vars == <<now, kubeconfig_path, path_lock, pool, constructions, procs, lastRet,
          cluster, resp, token,
          uuids, starts, tasks, registry, stopping, emitted, returned, stopped,
          invoked,
          guards, threads,
          sessions, temp_files, sessions_guard, commands, killed, session_ids>>

(***************************************************************************)
(* Bounds.                                                                 *)
(***************************************************************************)
MaxTime == 450
MaxClients == 2
MaxSegments == 5
MaxItems == 2
MaxCrds == 3
MaxParts == 4
MaxListed == 2
MaxWatches == 1
MaxSessions == 2
MaxData == 2

(***************************************************************************)
(* Option<String>::None.                                                   *)
(***************************************************************************)
None == "<none>"

(***************************************************************************)
(* The client pool.                                                        *)
(***************************************************************************)
CLIENT_CACHE_TTL == 300

Contexts == {"ctx-1"}
Paths == {None, "/a"}
PathInputs == {None, "", "/a"}
TickSteps == {150}
Procs == {"p1", "p2"}

\* the contexts a command is called with: a context name, and in the
\* specification of the calls without context also None
ContextsOffered ==
    IF invoked.cmd = "any context" THEN Contexts \cup {None} ELSE Contexts

ClientCacheKey == [context : Contexts \cup {None}, kubeconfig_path : Paths]

KeyOfContextOnly(context, kc_path) == [context |-> context, kubeconfig_path |-> None]

\* ClientCacheKey { context, kubeconfig_path }; Hash and Eq are derived, so
\* two keys are equal exactly when both fields are
KeyOf(context, kc_path) == [context |-> context, kubeconfig_path |-> kc_path]

Elapsed(created_at, t) == t - created_at

RetainAll(pl, t) == pl

RetainNone(pl, t) == <<>>

RetainFlipped(pl, t) ==
    [k \in {j \in DOMAIN pl : Elapsed(pl[j].created_at, t) > CLIENT_CACHE_TTL} |-> pl[k]]

RetainLe(pl, t) ==
    [k \in {j \in DOMAIN pl : Elapsed(pl[j].created_at, t) <= CLIENT_CACHE_TTL} |-> pl[k]]

\* pool_guard.retain(|_, v| v.created_at.elapsed() < CLIENT_CACHE_TTL)
Retain(pl, t) ==
    [k \in {j \in DOMAIN pl : Elapsed(pl[j].created_at, t) < CLIENT_CACHE_TTL} |-> pl[k]]

\* path.filter(|p| !p.is_empty())
FilterPath(path) == IF path = "" THEN None ELSE path

\* a kube Client handle: the n-th one built, and what it was built from
NoClient == [id |-> 0, context |-> None, kubeconfig_path |-> None]

\* Config::infer(): the configuration is taken from the environment
Inferred == "<inferred>"

\* RealK8sClient::new(context, kubeconfig_path): with a context the
\* kubeconfig is read from the path (None: ~/.kube/config); without one the
\* configuration is inferred and a path that was given is not read
NewClient(n, context, kc_path) ==
    [id |-> n, context |-> context,
     kubeconfig_path |-> IF context = None /\ kc_path # None THEN Inferred
                         ELSE kc_path]

NoPrior == [some |-> FALSE, valid |-> FALSE, client |-> NoClient, time |-> 0, created |-> 0]

IdleProc == [pc |-> "idle", context |-> None, kc_path |-> None, client |-> NoClient,
             ok |-> TRUE, hit |-> FALSE, age |-> 0, constructed |-> FALSE,
             priorSome |-> FALSE, priorValid |-> FALSE, priorClient |-> NoClient,
             sincePrior |-> FALSE, sinceCreated |-> FALSE, disturbed |-> FALSE]

\* the ClientCacheKey a call builds from its arguments
ProcKey(p) == KeyOf(procs[p].context, procs[p].kc_path)

\* the ConnectionIdentity a call was made with
Identity(p) == [context |-> procs[p].context, kubeconfig_path |-> procs[p].kc_path]

\* the other calls in flight for the identities ks are no longer undisturbed
Disturb(ps, ks, self) ==
    [q \in Procs |->
        IF q # self /\ ps[q].pc # "idle"
           /\ [context |-> ps[q].context, kubeconfig_path |-> ps[q].kc_path] \in ks
        THEN [ps[q] EXCEPT !.disturbed = TRUE]
        ELSE ps[q]]

Invalidate(lr) == [k \in ClientCacheKey |-> [lr[k] EXCEPT !.valid = FALSE]]

CacheInit ==
    /\ now = 0
    /\ kubeconfig_path = None
    /\ path_lock = "free"
    /\ pool = <<>>
    /\ constructions = 0
    /\ procs = [p \in Procs |-> IdleProc]
    /\ lastRet = [k \in ClientCacheKey |-> NoPrior]

\* time passes (Instant is monotonic)
Tick ==
    /\ \E d \in TickSteps :
          /\ now + d <= MaxTime
          /\ now' = now + d
    /\ UNCHANGED <<kubeconfig_path, path_lock, pool, constructions, procs, lastRet>>
    /\ UNCHANGED <<dispatchVars, parseVars, lockVars, terminalVars, callVars, watchVars>>

\* a command's prologue: kubeconfig_path.lock()?.clone()
ReadPath(p) ==
    /\ procs[p].pc = "idle"
    /\ path_lock = "free"
    /\ \E ctx \in ContextsOffered :
          procs' = [procs EXCEPT ![p] =
                       [IdleProc EXCEPT !.pc = "lookup", !.context = ctx,
                                        !.kc_path = kubeconfig_path]]
    /\ UNCHANGED <<now, kubeconfig_path, path_lock, pool, constructions, lastRet>>
    /\ UNCHANGED <<dispatchVars, parseVars, lockVars, terminalVars, callVars, watchVars>>

\* get_or_create_raw_client, first critical section: sweep, then lookup
Lookup(p) ==
    /\ procs[p].pc = "lookup"
    /\ LET key == ProcKey(p)
           kept == Retain(pool, now)
           evicted == DOMAIN pool \ DOMAIN kept
           ps == Disturb(procs, evicted, p)
           prior == lastRet[Identity(p)]
           base == [ps[p] EXCEPT
                      !.priorSome = prior.some, !.priorValid = prior.valid,
                      !.priorClient = prior.client,
                      !.sincePrior = prior.some /\ Elapsed(prior.time, now) < CLIENT_CACHE_TTL,
                      !.sinceCreated = prior.some /\ Elapsed(prior.created, now) < CLIENT_CACHE_TTL]
       IN  /\ pool' = kept
           /\ IF key \in DOMAIN kept
              THEN /\ procs' = [ps EXCEPT ![p] =
                          [base EXCEPT !.pc = "done", !.ok = TRUE, !.hit = TRUE,
                                       !.client = kept[key].client,
                                       !.age = Elapsed(kept[key].created_at, now)]]
                   /\ lastRet' = [lastRet EXCEPT ![Identity(p)] =
                          [some |-> TRUE, valid |-> TRUE,
                           client |-> kept[key].client, time |-> now,
                           created |-> kept[key].created_at]]
              ELSE /\ procs' = [ps EXCEPT ![p] = [base EXCEPT !.pc = "construct"]]
                   /\ lastRet' = lastRet
    /\ UNCHANGED <<now, kubeconfig_path, path_lock, constructions>>
    /\ UNCHANGED <<dispatchVars, parseVars, lockVars, terminalVars, callVars, watchVars>>

ConstructCachingFailure(p) ==
    /\ procs[p].pc = "construct"
    /\ \/ /\ constructions < MaxClients
          /\ constructions' = constructions + 1
          /\ procs' = [procs EXCEPT ![p] =
                  [@ EXCEPT !.pc = "insert", !.constructed = TRUE,
                            !.client = NewClient(constructions + 1,
                                                 procs[p].context, procs[p].kc_path)]]
          /\ pool' = pool
       \/ /\ constructions' = constructions
          /\ procs' = [procs EXCEPT ![p] = [@ EXCEPT !.pc = "done", !.ok = FALSE]]
          /\ pool' = [k \in DOMAIN pool \cup {ProcKey(p)} |->
                         IF k = ProcKey(p)
                         THEN [client |-> NoClient, created_at |-> now]
                         ELSE pool[k]]
    /\ UNCHANGED <<now, kubeconfig_path, path_lock, lastRet>>
    /\ UNCHANGED <<dispatchVars, parseVars, lockVars, terminalVars, callVars, watchVars>>

\* RealK8sClient::new(context, kubeconfig_path).await, outside the pool lock
Construct(p) ==
    /\ procs[p].pc = "construct"
    /\ \/ /\ constructions < MaxClients
          /\ constructions' = constructions + 1
          /\ procs' = [procs EXCEPT ![p] =
                  [@ EXCEPT !.pc = "insert", !.constructed = TRUE,
                            !.client = NewClient(constructions + 1,
                                                 procs[p].context, procs[p].kc_path)]]
       \/ /\ constructions' = constructions
          /\ procs' = [procs EXCEPT ![p] = [@ EXCEPT !.pc = "done", !.ok = FALSE]]
    /\ UNCHANGED <<now, kubeconfig_path, path_lock, pool, lastRet>>
    /\ UNCHANGED <<dispatchVars, parseVars, lockVars, terminalVars, callVars, watchVars>>

\* get_or_create_raw_client, second critical section: insert and return
Insert(p) ==
    /\ procs[p].pc = "insert"
    /\ LET key == ProcKey(p)
           entry == [client |-> procs[p].client, created_at |-> now]
       IN  /\ pool' = [k \in DOMAIN pool \cup {key} |->
                          IF k = key THEN entry ELSE pool[k]]
           /\ lastRet' = [lastRet EXCEPT ![Identity(p)] =
                  [some |-> TRUE, valid |-> TRUE, client |-> procs[p].client,
                   time |-> now, created |-> now]]
    /\ procs' = [procs EXCEPT ![p] = [@ EXCEPT !.pc = "done", !.ok = TRUE]]
    /\ UNCHANGED <<now, kubeconfig_path, path_lock, constructions>>
    /\ UNCHANGED <<dispatchVars, parseVars, lockVars, terminalVars, callVars, watchVars>>

\* the command ends
Return(p) ==
    /\ procs[p].pc = "done"
    /\ procs' = [procs EXCEPT ![p] = IdleProc]
    /\ UNCHANGED <<now, kubeconfig_path, path_lock, pool, constructions, lastRet>>
    /\ UNCHANGED <<dispatchVars, parseVars, lockVars, terminalVars, callVars, watchVars>>

\* set_kubeconfig_path: lock the path and store it
SetPathStore ==
    /\ path_lock = "free"
    /\ \E path \in PathInputs : kubeconfig_path' = FilterPath(path)
    /\ path_lock' = "held"
    /\ UNCHANGED <<now, pool, constructions, procs, lastRet>>
    /\ UNCHANGED <<dispatchVars, parseVars, lockVars, terminalVars, callVars, watchVars>>

\* a clear that also stops every watch
SetPathClearStoppingWatches ==
    /\ path_lock = "held"
    /\ pool' = <<>>
    /\ path_lock' = "free"
    /\ procs' = Disturb(procs, ClientCacheKey, "setter")
    /\ lastRet' = Invalidate(lastRet)
    /\ registry' = <<>>
    /\ tasks' = [t \in DOMAIN tasks |-> [tasks[t] EXCEPT !.abort = TRUE]]
    /\ UNCHANGED <<now, kubeconfig_path, constructions>>
    /\ UNCHANGED <<uuids, starts, stopping, emitted, returned, stopped>>
    /\ UNCHANGED <<dispatchVars, parseVars, lockVars, terminalVars, callVars>>

\* set_kubeconfig_path: client_pool.lock()?.clear(), then both guards drop
SetPathClear ==
    /\ path_lock = "held"
    /\ pool' = <<>>
    /\ path_lock' = "free"
    /\ procs' = Disturb(procs, ClientCacheKey, "setter")
    /\ lastRet' = Invalidate(lastRet)
    /\ UNCHANGED <<now, kubeconfig_path, constructions>>
    /\ UNCHANGED <<dispatchVars, parseVars, lockVars, terminalVars, callVars, watchVars>>

(***************************************************************************)
(* Kind strings.  A string is a sequence of atoms; the atoms "cr:" and "/" *)
(* are the prefix and the separator of a custom-resource token, every      *)
(* other atom is a run of characters without a separator.                  *)
(***************************************************************************)
Str(a) == <<a>>

\* cr_kind.starts_with("cr:")
StartsWithCr(kind) == Len(kind) >= 1 /\ kind[1] = "cr:"

\* position of the first '/' in s, 0 when there is none
RECURSIVE FirstSlash(_, _)
FirstSlash(s, i) ==
    IF i > Len(s) THEN 0
    ELSE IF s[i] = "/" THEN i
    ELSE FirstSlash(s, i + 1)

\* str::splitn(n, '/'): at most n parts, the last one holds the remainder
RECURSIVE SplitN(_, _)
SplitN(n, s) ==
    LET i == FirstSlash(s, 1)
    IN  IF n <= 1 \/ i = 0 THEN <<s>>
        ELSE <<SubSeq(s, 1, i - 1)>> \o SplitN(n - 1, SubSeq(s, i + 1, Len(s)))

\* the parts joined with '/'
RECURSIVE JoinSlash(_)
JoinSlash(parts) ==
    IF Len(parts) = 0 THEN <<>>
    ELSE IF Len(parts) = 1 THEN parts[1]
    ELSE parts[1] \o <<"/">> \o JoinSlash(Tail(parts))

\* format!("cr:{}/{}/{}/{}", group, version, plural, scope)
CrKind(text) == <<"cr:">> \o text

(***************************************************************************)
(* The kinds of define_k8s_trait! / define_k8s_impl! and the match arms of *)
(* the three commands.                                                     *)
(***************************************************************************)
NamespacedTypes ==
    {"Pod", "Deployment", "Service", "ReplicaSet", "StatefulSet", "DaemonSet",
     "Job", "CronJob", "ConfigMap", "Secret", "Ingress", "NetworkPolicy",
     "PersistentVolumeClaim", "Role", "RoleBinding", "ServiceAccount",
     "Endpoints", "Event", "HorizontalPodAutoscaler", "LimitRange",
     "ResourceQuota"}

ClusterTypes ==
    {"Node", "Namespace", "PersistentVolume", "StorageClass", "ClusterRole",
     "ClusterRoleBinding"}

\* list_resources: plural kind name -> the namespaced list function's type
ListNamespacedKinds ==
    [Pods |-> "Pod", Deployments |-> "Deployment", Services |-> "Service",
     ReplicaSets |-> "ReplicaSet", StatefulSets |-> "StatefulSet",
     DaemonSets |-> "DaemonSet", Jobs |-> "Job", CronJobs |-> "CronJob",
     ConfigMaps |-> "ConfigMap", Secrets |-> "Secret", Ingresses |-> "Ingress",
     NetworkPolicies |-> "NetworkPolicy",
     PersistentVolumeClaims |-> "PersistentVolumeClaim", Roles |-> "Role",
     RoleBindings |-> "RoleBinding", ServiceAccounts |-> "ServiceAccount",
     Endpoints |-> "Endpoints", Events |-> "Event",
     HorizontalPodAutoscalers |-> "HorizontalPodAutoscaler",
     LimitRanges |-> "LimitRange", ResourceQuotas |-> "ResourceQuota"]

\* list_resources: plural kind name -> the cluster list function's type
ListClusterKinds ==
    [Nodes |-> "Node", Namespaces |-> "Namespace",
     PersistentVolumes |-> "PersistentVolume", StorageClasses |-> "StorageClass",
     ClusterRoles |-> "ClusterRole", ClusterRoleBindings |-> "ClusterRoleBinding",
     CRDs |-> "CustomResourceDefinition"]

\* get_resource_detail: the arms that require a namespace
GetNamespacedKinds == NamespacedTypes

\* get_resource_detail: the arms that take no namespace
GetClusterKinds == ClusterTypes

\* delete_resource: the arms that require a namespace
DeleteNamespacedKinds ==
    {"Pod", "Deployment", "Service", "ReplicaSet", "StatefulSet", "DaemonSet",
     "Job", "CronJob", "ConfigMap", "Secret", "Ingress", "NetworkPolicy",
     "PersistentVolumeClaim", "Role", "RoleBinding", "ServiceAccount",
     "HorizontalPodAutoscaler", "LimitRange", "ResourceQuota"}

\* delete_resource: the arms that use Api::all
DeleteClusterKinds ==
    {"PersistentVolume", "StorageClass", "ClusterRole", "ClusterRoleBinding",
     "Namespace", "Node"}

EventSupportedKindsWithNode ==
    {"Pod", "Deployment", "ReplicaSet", "StatefulSet", "DaemonSet", "Service",
     "Job", "CronJob", "ConfigMap", "Secret", "PersistentVolume",
     "PersistentVolumeClaim", "Node"}

\* get_resource_detail: event_supported_kinds
EventSupportedKinds ==
    {"Pod", "Deployment", "ReplicaSet", "StatefulSet", "DaemonSet", "Service",
     "Job", "CronJob", "ConfigMap", "Secret", "PersistentVolume",
     "PersistentVolumeClaim"}

\* kind.as_str() matches the literal of one of the arms in names
IsArm(kind, names) == Len(kind) = 1 /\ kind[1] \in names

(***************************************************************************)
(* The API server: objects, and the list / get / delete of kube::Api.      *)
(***************************************************************************)
\* Api<K> of a k8s_openapi type
Typed(t) == [api |-> "typed", kind |-> t, group |-> <<>>, version |-> <<>>,
             plural |-> <<>>]

\* Api<DynamicObject> of an ApiResource { group, version, kind: "", plural }
Dynamic(g, v, p) == [api |-> "dynamic", kind |-> "", group |-> g, version |-> v,
                     plural |-> p]

NoInvolved == [kind |-> None, name |-> None, namespace |-> None]

\* an object of the API server; serial tells whether serde_json::to_value of
\* the object succeeds
Obj(type, ns, name) == [type |-> type, ns |-> ns, name |-> name,
                        involved |-> NoInvolved, serial |-> TRUE]

\* the same object, of which serde_json::to_value returns Err
Unserializable(o) == [o EXCEPT !.serial = FALSE]

\* an Event in namespace ns about the object (kind, name, namespace)
EventObj(ns, ename, kind, name, namespace) ==
    [type |-> Typed("Event"), ns |-> ns, name |-> ename,
     involved |-> [kind |-> kind, name |-> name, namespace |-> namespace],
     serial |-> TRUE]

Namespaces == {"a", "b"}
NamespaceInputs == {None} \cup Namespaces
NameInputs == {"x", "y"}

WidgetType == Dynamic(Str("g"), Str("v1"), Str("widgets"))
GadgetType == Dynamic(Str("g"), Str("v1"), Str("gadgets"))

\* the objects of a cluster that holds objects of one type, and their events
Universe(t) ==
    IF t = "Event"
    THEN {EventObj("a", "x", "Pod", "x", "a"), EventObj("b", "x", "Pod", "x", "b")}
    ELSE IF t \in NamespacedTypes
    THEN {Obj(Typed(t), "a", "x"), Obj(Typed(t), "b", "x"),
          EventObj("a", "e1", t, "x", "a"), EventObj("a", "e2", t, "y", "a"),
          EventObj("a", "e3", "Widget", "x", "a"),
          EventObj("a", "e4", t, "x", "b")}
    ELSE IF t \in ClusterTypes \cup {"CustomResourceDefinition"}
    THEN {Obj(Typed(t), None, "x"), EventObj("a", "e1", t, "x", None),
          EventObj("a", "e2", t, "y", None),
          EventObj("a", "e3", "Widget", "x", None)}
    ELSE IF t = "widgets"
    THEN {Obj(WidgetType, "a", "x"), Obj(WidgetType, "b", "x")}
    ELSE {Obj(GadgetType, None, "x")}

\* the same cluster with objects of which to_value fails: an object y of the
\* type and, for a namespaced type, an Event about x
FlawedUniverse(t) ==
    Universe(t) \cup
        (IF t = "Event" THEN {Unserializable(EventObj("a", "y", "Pod", "x", "a"))}
         ELSE IF t \in NamespacedTypes
         THEN {Unserializable(Obj(Typed(t), "a", "y")),
               Unserializable(EventObj("a", "e5", t, "x", "a"))}
         ELSE IF t \in ClusterTypes \cup {"CustomResourceDefinition"}
         THEN {Unserializable(Obj(Typed(t), None, "y"))}
         ELSE IF t = "widgets"
         THEN {Unserializable(Obj(WidgetType, "a", "y"))}
         ELSE {Unserializable(Obj(GadgetType, None, "y"))})

PopulatedTypes ==
    NamespacedTypes \cup ClusterTypes
        \cup {"CustomResourceDefinition", "widgets", "gadgets"}

\* Api::all (scope = None) or Api::namespaced (scope = ns), then list
ApiList(cl, type, scope) ==
    {o \in cl : o.type = type /\ (scope = None \/ o.ns = scope)}

\* the objects that get / delete by name address under the scope
ApiFind(cl, type, scope, name) ==
    {o \in cl : o.type = type /\ o.ns = scope /\ o.name = name}

ApiCall(verb, type, scope, name) ==
    [verb |-> verb, type |-> type, ns |-> scope, name |-> name]

\* serde_json::to_value of an object
ToValue(o) ==
    [apiType |-> o.type,
     metadata |-> [name |-> o.name, namespace |-> o.ns],
     involvedObject |-> o.involved]

\* serialize_resources: filter_map drops the items whose to_value fails
SerializeResources(items) == {ToValue(o) : o \in {i \in items : i.serial}}

(***************************************************************************)
(* Errors and results.                                                     *)
(***************************************************************************)
NoError == [variant |-> "none", reason |-> "", code |-> 0, text |-> "", arg |-> <<>>]

\* K8sError::Kube(kube::Error::Api(ErrorResponse { message, reason, code }))
ApiError(reason, code, text, arg) ==
    [variant |-> "Kube", reason |-> reason, code |-> code, text |-> text, arg |-> arg]

\* require_namespace(kind)
RequireNamespace(kind) ==
    ApiError("BadRequest", 400, "Namespace required for ", kind)

InvalidCrKind(cr_kind) ==
    ApiError("BadRequest", 400, "Invalid custom resource kind format: ", cr_kind)

UnsupportedDeleteKind(kind) ==
    ApiError("BadRequest", 400, "Unsupported resource kind for delete: ", kind)

\* K8sError::Serialization(serde_json::Error)
SerializationError ==
    [variant |-> "Serialization", reason |-> "", code |-> 0, text |-> "",
     arg |-> <<>>]

\* answers of the API server
NotFound(name) == ApiError("NotFound", 404, "not found: ", Str(name))
ServerFailure == ApiError("InternalError", 500, "", <<>>)

Ok(items, events, empty, calls, cl) ==
    [ok |-> TRUE, err |-> NoError, items |-> items, events |-> events,
     empty |-> empty, calls |-> calls, cluster |-> cl]

Err(e, calls, cl) ==
    [ok |-> FALSE, err |-> e, items |-> {}, events |-> {}, empty |-> FALSE,
     calls |-> calls, cluster |-> cl]

\* api.list(&ListParams::default()).await?
DoList(type, scope, cl, failed) ==
    IF failed THEN Err(ServerFailure, <<ApiCall("list", type, scope, None)>>, cl)
    ELSE Ok(ApiList(cl, type, scope), {}, FALSE,
            <<ApiCall("list", type, scope, None)>>, cl)

\* api.get(name).await?
DoGet(type, scope, name, cl, failed) ==
    LET call == ApiCall("get", type, scope, name)
        found == ApiFind(cl, type, scope, name)
    IN  IF failed THEN Err(ServerFailure, <<call>>, cl)
        ELSE IF found = {} THEN Err(NotFound(name), <<call>>, cl)
        ELSE Ok(found, {}, FALSE, <<call>>, cl)

\* api.delete(name, &dp).await?
DoDelete(type, scope, name, cl, failed) ==
    LET call == ApiCall("delete", type, scope, name)
        found == ApiFind(cl, type, scope, name)
    IN  IF failed THEN Err(ServerFailure, <<call>>, cl)
        ELSE IF found = {} THEN Err(NotFound(name), <<call>>, cl)
        ELSE Ok({}, {}, FALSE, <<call>>, cl \ found)

(***************************************************************************)
(* RealK8sClient: the list, get and delete functions.                      *)
(***************************************************************************)
ListAllNamespaces(type, namespace, cl, failed) ==
    DoList(Typed(type), None, cl, failed)

\* $n_list_fn: Api::namespaced for Some(ns), Api::all for None
ListNamespaced(type, namespace, cl, failed) ==
    DoList(Typed(type), namespace, cl, failed)

\* $c_list_fn: Api::all
ListCluster(type, cl, failed) ==
    DoList(Typed(type), None, cl, failed)

\* $n_get_fn: Api::namespaced(ns).get(name)
GetNamespaced(type, name, ns, cl, failed) ==
    DoGet(Typed(type), ns, name, cl, failed)

\* $c_get_fn: Api::all.get(name)
GetCluster(type, name, cl, failed) ==
    DoGet(Typed(type), None, name, cl, failed)

\* items.map(serde_json::to_value).collect::<Result<Vec<_>, _>>()?
Collected(r) ==
    IF ~r.ok THEN r
    ELSE IF \E o \in r.items : ~o.serial
    THEN Err(SerializationError, r.calls, r.cluster)
    ELSE [r EXCEPT !.items = {ToValue(o) : o \in r.items}]

ListCustomResources(group, version, plural, scope, namespace, cl, failed) ==
    LET api_scope == IF scope = Str("Namespaced") THEN namespace ELSE None
    IN  Collected(DoList(Dynamic(group, version, plural), api_scope, cl, failed))

GetCustomResource(group, version, plural, scope, name, namespace, cl, failed) ==
    IF scope = Str("Namespaced")
    THEN IF namespace = None
         THEN Err(RequireNamespace(Str("CustomResource")), <<>>, cl)
         ELSE DoGet(Dynamic(group, version, plural), namespace, name, cl, failed)
    ELSE DoGet(Dynamic(group, version, plural), None, name, cl, failed)

DeleteCustomResource(group, version, plural, scope, name, namespace, cl, failed) ==
    IF scope = Str("Namespaced")
    THEN IF namespace = None
         THEN Err(RequireNamespace(Str("CustomResource")), <<>>, cl)
         ELSE DoDelete(Dynamic(group, version, plural), namespace, name, cl, failed)
    ELSE DoDelete(Dynamic(group, version, plural), None, name, cl, failed)

CrPartsWithPrefix(cr_kind) == SplitN(4, cr_kind)

\* cr_kind[3..].splitn(4, '/').collect()
CrParts(cr_kind) == SplitN(4, Tail(cr_kind))

DeleteUnsupportedOk(kind, cl) == Ok({}, {}, FALSE, <<>>, cl)

\* delete_resource: the default arm
DeleteUnsupported(kind, cl) == Err(UnsupportedDeleteKind(kind), <<>>, cl)

\* RealK8sClient::delete_resource
DeleteResource(kind, name, namespace, cl, fail) ==
    IF IsArm(kind, DeleteNamespacedKinds)
    THEN IF namespace = None
         THEN Err(RequireNamespace(kind), <<>>, cl)
         ELSE DoDelete(Typed(kind[1]), namespace, name, cl, fail = "first")
    ELSE IF IsArm(kind, DeleteClusterKinds)
    THEN DoDelete(Typed(kind[1]), None, name, cl, fail = "first")
    ELSE IF StartsWithCr(kind)
    THEN LET parts == CrParts(kind)
         IN  IF Len(parts) = 4
             THEN DeleteCustomResource(parts[1], parts[2], parts[3], parts[4],
                                       name, namespace, cl, fail = "first")
             ELSE Err(InvalidCrKind(kind), <<>>, cl)
    ELSE DeleteUnsupported(kind, cl)

ListUnsupportedErr(kind, cl) == Err(UnsupportedDeleteKind(kind), <<>>, cl)

\* list_resources: the default arm, _ => vec![]
ListUnsupported(kind, cl) == Ok({}, {}, FALSE, <<>>, cl)

\* get_resource_detail: the default arm, _ => serde_json::json!({})
GetUnsupported(kind, cl) == Ok({}, {}, TRUE, <<>>, cl)

\* serialize_resources(client.list_x(..).await?)
Serialized(r) ==
    IF r.ok THEN [r EXCEPT !.items = SerializeResources(r.items)] ELSE r

\* list_resources, from the client on
ListResources(kind, namespace, cl, fail) ==
    IF IsArm(kind, DOMAIN ListNamespacedKinds)
    THEN Serialized(ListNamespaced(ListNamespacedKinds[kind[1]], namespace, cl,
                                   fail = "first"))
    ELSE IF IsArm(kind, DOMAIN ListClusterKinds)
    THEN Serialized(ListCluster(ListClusterKinds[kind[1]], cl, fail = "first"))
    ELSE IF StartsWithCr(kind)
    THEN LET parts == CrParts(kind)
         IN  IF Len(parts) = 4
             THEN ListCustomResources(parts[1], parts[2], parts[3], parts[4],
                                      namespace, cl, fail = "first")
             ELSE Err(InvalidCrKind(kind), <<>>, cl)
    ELSE ListUnsupported(kind, cl)

\* get_resource_detail: the match that fetches the resource
GetResource(kind, name, namespace, cl, failed) ==
    IF IsArm(kind, GetNamespacedKinds)
    THEN IF namespace = None
         THEN Err(RequireNamespace(kind), <<>>, cl)
         ELSE Collected(GetNamespaced(kind[1], name, namespace, cl, failed))
    ELSE IF IsArm(kind, GetClusterKinds)
    THEN Collected(GetCluster(kind[1], name, cl, failed))
    ELSE IF StartsWithCr(kind)
    THEN LET parts == CrParts(kind)
         IN  IF Len(parts) = 4
             THEN Collected(GetCustomResource(parts[1], parts[2], parts[3],
                                              parts[4], name, namespace, cl,
                                              failed))
             ELSE Err(InvalidCrKind(kind), <<>>, cl)
    ELSE GetUnsupported(kind, cl)

EventMatchesAnyNamespace(event, kind, name, ns) ==
    /\ Str(event.involved.kind) = kind
    /\ event.involved.name = name

\* get_resource_detail: the filter of the event folding
EventMatches(event, kind, name, ns) ==
    /\ Str(event.involved.kind) = kind
    /\ event.involved.name = name
    /\ \/ event.involved.namespace = ns
       \/ (event.involved.namespace = None /\ ns = None)

\* get_resource_detail, from the client on
GetResourceDetail(kind, name, namespace, cl, fail) ==
    LET resource == GetResource(kind, name, namespace, cl, fail = "first")
    IN  IF ~resource.ok THEN resource
        ELSE IF IsArm(kind, EventSupportedKinds)
        THEN LET all_events == ListNamespaced("Event", namespace, cl,
                                              fail = "second")
                 filtered_events ==
                     {e \in all_events.items : EventMatches(e, kind, name, namespace)}
             IN  IF ~all_events.ok
                 THEN Err(all_events.err, resource.calls \o all_events.calls, cl)
                 ELSE Ok(resource.items, SerializeResources(filtered_events),
                         resource.empty, resource.calls \o all_events.calls, cl)
        ELSE resource

(***************************************************************************)
(* The three commands as steps: a command runs against the cluster and     *)
(* leaves its request and its result in resp until the caller takes it.    *)
(***************************************************************************)
Request(cmd, kind, name, ns, fail, before, result) ==
    [cmd |-> cmd, kind |-> kind, name |-> name, ns |-> ns, fail |-> fail,
     before |-> before, result |-> result]

NoResp == Request("none", <<>>, None, None, "none", {},
                  Ok({}, {}, FALSE, <<>>, {}))

NoToken == [fields |-> <<>>, text |-> <<>>, drawn |-> FALSE]

WidgetKind == CrKind(JoinSlash(<<Str("g"), Str("v1"), Str("widgets"), Str("Namespaced")>>))
GadgetKind == CrKind(JoinSlash(<<Str("g"), Str("v1"), Str("gadgets"), Str("Cluster")>>))

\* kinds a caller passes: every literal of the three matches, names that
\* match none, and custom-resource tokens, well formed and malformed
KindInputs ==
    {Str(k) : k \in NamespacedTypes \cup ClusterTypes
                      \cup DOMAIN ListNamespacedKinds \cup DOMAIN ListClusterKinds
                      \cup {"CustomResourceDefinition", "Widget"}}
        \cup {<<>>, WidgetKind, GadgetKind, CrKind(<<>>),
              CrKind(JoinSlash(<<Str("g"), Str("v1"), Str("widgets")>>)),
              CrKind(JoinSlash(<<Str("g"), Str("v1"), Str("widgets"),
                                 Str("Namespaced"), Str("x")>>))}

\* the kinds offered to a command: the drawn token when there is one
KindsOffered == IF token.drawn THEN {CrKind(token.text)} ELSE KindInputs

ListCmd ==
    /\ resp.cmd = "none"
    /\ \E kind \in KindsOffered, ns \in NamespaceInputs, fail \in {"none", "first"} :
          LET r == ListResources(kind, ns, cluster, fail)
          IN  /\ resp' = Request("list", kind, None, ns, fail, cluster, r)
              /\ cluster' = r.cluster
    /\ UNCHANGED <<cacheVars, parseVars, lockVars, terminalVars, callVars, watchVars>>

GetCmd ==
    /\ resp.cmd = "none"
    /\ \E kind \in KindsOffered, name \in NameInputs, ns \in NamespaceInputs,
          fail \in {"none", "first", "second"} :
          LET r == GetResourceDetail(kind, name, ns, cluster, fail)
          IN  /\ resp' = Request("get", kind, name, ns, fail, cluster, r)
              /\ cluster' = r.cluster
    /\ UNCHANGED <<cacheVars, parseVars, lockVars, terminalVars, callVars, watchVars>>

DeleteCmd ==
    /\ resp.cmd = "none"
    /\ \E kind \in KindsOffered, name \in NameInputs, ns \in NamespaceInputs,
          fail \in {"none", "first"} :
          LET r == DeleteResource(kind, name, ns, cluster, fail)
          IN  /\ resp' = Request("delete", kind, name, ns, fail, cluster, r)
              /\ cluster' = r.cluster
    /\ UNCHANGED <<cacheVars, parseVars, lockVars, terminalVars, callVars, watchVars>>

TakeResult ==
    /\ resp.cmd # "none"
    /\ resp' = NoResp
    /\ UNCHANGED <<cacheVars, cluster, parseVars, lockVars, terminalVars, callVars, watchVars>>

DispatchIdle ==
    /\ cluster = {}
    /\ resp = NoResp

ParseIdle ==
    /\ token = NoToken

\* a command that computes its result from what one listing returned: the
\* call, the listing and the result
NoCall == [cmd |-> "none", input |-> <<>>, output |-> <<>>, done |-> FALSE]

CallIdle ==
    /\ invoked = NoCall

(***************************************************************************)
(* The watch manager: start_watch_resources, stop_watch_resources and the  *)
(* tasks of run_watcher.  A task is polled by the runtime: it is idle      *)
(* (spawned or suspended, not being polled), polling (inside               *)
(* stream.next()), or holds the item it pulled; an abort takes effect when *)
(* the task is idle, never in the middle of a poll.                        *)
(***************************************************************************)
\* HashMap::insert and HashMap::remove
Put(map, key, value) ==
    [k \in DOMAIN map \cup {key} |-> IF k = key THEN value ELSE map[k]]

RemoveKey(map, key) == [k \in DOMAIN map \ {key} |-> map[k]]

Peeked(map, watch_id) == map

\* watcher_handle.lock()?.remove(&watch_id): the registry without the entry
Removed(map, watch_id) == RemoveKey(map, watch_id)

AbortForgotten(task) == task

\* JoinHandle::abort(): cancellation is requested
Abort(task) == [task EXCEPT !.abort = TRUE]

\* start_watch_resources: the arms of watch_namespaced_or_all
WatchNamespacedKinds ==
    {"Pods", "Deployments", "Services", "ReplicaSets", "StatefulSets",
     "DaemonSets", "Jobs", "CronJobs", "ConfigMaps", "Secrets", "Ingresses"}

\* start_watch_resources: the arms of watch_cluster_scoped
WatchClusterKinds == {"Nodes", "Namespaces"}

\* the ids uuid::Uuid::new_v4() produces, in the order of the calls
Uuids == <<"w1", "w2">>

UuidFirst(generated) == Uuids[1]

\* uuid::Uuid::new_v4(): a value no earlier call has produced
UuidNewV4(generated) == Uuids[generated + 1]

\* an id no call has produced
UnknownId == "w0"

WatchIds == {Uuids[i] : i \in DOMAIN Uuids}

SpawnsAlways(kind) == TRUE

\* the match on kind reaches an arm that spawns a task
Spawns(kind) == IsArm(kind, WatchNamespacedKinds \cup WatchClusterKinds)

\* kinds a caller passes to start_watch_resources
WatchKindInputs ==
    {Str(k) : k \in DOMAIN ListNamespacedKinds \cup DOMAIN ListClusterKinds
                      \cup {"Pod", "Widget"}}
        \cup {<<>>, WidgetKind}

WatchedObjects == {"x", "y"}

NoItem == [tag |-> "none", obj |-> None]

\* what stream.next() yields: Ok(Event) or Err
StreamItems ==
    {[tag |-> "Apply", obj |-> o] : o \in WatchedObjects}
        \cup {[tag |-> t, obj |-> "x"] : t \in {"InitApply", "Delete"}}
        \cup {[tag |-> t, obj |-> None] : t \in {"Init", "InitDone", "Err"}}

\* the items the streams have delivered so far
RECURSIVE Delivered(_)
Delivered(ts) ==
    IF ts = <<>> THEN 0 ELSE Head(ts).seq + Delivered(Tail(ts))

\* tokio::spawn of the watch loop
NewTask(watch_id) ==
    [watch_id |-> watch_id, pc |-> "idle", item |-> NoItem, abort |-> FALSE,
     seq |-> 0, erred |-> 0]

\* serde_json::to_value(&resource)
WatchValue(obj) == [metadata |-> [name |-> obj]]

EventTypeSwapped(item) ==
    IF item.tag = "Delete" THEN "modified" ELSE "deleted"

\* the event type of Apply, Delete and InitApply
EventType(item) ==
    IF item.tag = "Delete" THEN "deleted" ELSE "modified"

\* Event::Init | Event::InitDone => continue
Swallowed(item) == item.tag \in {"Init", "InitDone"}

\* every task emits under the id generated first
EmissionUnderFirstId(watch_id, item, seq, late) ==
    [name |-> Uuids[1], event_type |-> EventType(item),
     resource |-> WatchValue(item.obj), seq |-> seq, late |-> late]

\* app.emit("resource-watch-{watch_id}", ResourceWatchEvent { .. })
Emission(watch_id, item, seq, late) ==
    [name |-> watch_id, event_type |-> EventType(item),
     resource |-> WatchValue(item.obj), seq |-> seq, late |-> late]

AfterErrorBreak(task) ==
    [task EXCEPT !.pc = "finished", !.item = NoItem, !.erred = task.seq]

\* Err(e) => log::warn!, and the loop goes on
AfterError(task) ==
    [task EXCEPT !.pc = "polling", !.item = NoItem, !.erred = task.seq]

WatchInit ==
    /\ uuids = 0
    /\ starts = <<>>
    /\ tasks = <<>>
    /\ registry = <<>>
    /\ stopping = <<>>
    /\ emitted = <<>>
    /\ returned = <<>>
    /\ stopped = {}

\* start_watch_resources up to the match on kind: the id is generated and,
\* for a kind of the watch set, the task is spawned
StartWatch ==
    /\ uuids < Len(Uuids)
    /\ \E kind \in WatchKindInputs :
          LET watch_id == UuidNewV4(uuids)
          IN  /\ uuids' = uuids + 1
              /\ tasks' = IF Spawns(kind) THEN Append(tasks, NewTask(watch_id))
                          ELSE tasks
              /\ starts' = Put(starts, watch_id,
                               IF Spawns(kind) THEN Len(tasks) + 1 ELSE 0)
    /\ UNCHANGED <<registry, stopping, emitted, returned, stopped>>
    /\ UNCHANGED <<cacheVars, dispatchVars, parseVars, lockVars, terminalVars, callVars>>

StartRegisterAfterFirstItem(watch_id) ==
    /\ watch_id \in DOMAIN starts
    /\ starts[watch_id] # 0
    /\ tasks[starts[watch_id]].seq > 0
    /\ registry' = Put(registry, watch_id, starts[watch_id])
    /\ starts' = RemoveKey(starts, watch_id)
    /\ returned' = Put(returned, watch_id, "task")
    /\ UNCHANGED <<uuids, tasks, stopping, emitted, stopped>>
    /\ UNCHANGED <<cacheVars, dispatchVars, parseVars, lockVars, terminalVars, callVars>>

\* start_watch_resources: the handle is inserted and the id returned
StartRegister(watch_id) ==
    /\ watch_id \in DOMAIN starts
    /\ starts[watch_id] # 0
    /\ registry' = Put(registry, watch_id, starts[watch_id])
    /\ starts' = RemoveKey(starts, watch_id)
    /\ returned' = Put(returned, watch_id, "task")
    /\ UNCHANGED <<uuids, tasks, stopping, emitted, stopped>>
    /\ UNCHANGED <<cacheVars, dispatchVars, parseVars, lockVars, terminalVars, callVars>>

\* start_watch_resources: the default arm returns the id
StartUnsupported(watch_id) ==
    /\ watch_id \in DOMAIN starts
    /\ starts[watch_id] = 0
    /\ starts' = RemoveKey(starts, watch_id)
    /\ returned' = Put(returned, watch_id, "none")
    /\ UNCHANGED <<uuids, tasks, registry, stopping, emitted, stopped>>
    /\ UNCHANGED <<cacheVars, dispatchVars, parseVars, lockVars, terminalVars, callVars>>

\* the ids a caller can pass to stop_watch_resources
StopInputs == DOMAIN returned \cup {UnknownId}

\* stop_watch_resources: remove(&watch_id) finds a handle
StopRemove(watch_id) ==
    /\ watch_id \in StopInputs
    /\ watch_id \in DOMAIN registry
    /\ watch_id \notin DOMAIN stopping
    /\ stopping' = Put(stopping, watch_id, registry[watch_id])
    /\ registry' = Removed(registry, watch_id)
    /\ UNCHANGED <<uuids, starts, tasks, emitted, returned, stopped>>
    /\ UNCHANGED <<cacheVars, dispatchVars, parseVars, lockVars, terminalVars, callVars>>

\* stop_watch_resources: handle.abort(), Ok(())
StopAbort(watch_id) ==
    /\ watch_id \in DOMAIN stopping
    /\ tasks' = [tasks EXCEPT ![stopping[watch_id]] = Abort(@)]
    /\ stopping' = RemoveKey(stopping, watch_id)
    /\ stopped' = stopped \cup {watch_id}
    /\ UNCHANGED <<uuids, starts, registry, emitted, returned>>
    /\ UNCHANGED <<cacheVars, dispatchVars, parseVars, lockVars, terminalVars, callVars>>

\* stop_watch_resources: remove(&watch_id) finds nothing, Ok(())
StopNoEntry(watch_id) ==
    /\ watch_id \in StopInputs
    /\ watch_id \notin DOMAIN registry
    /\ stopped' = stopped \cup {watch_id}
    /\ UNCHANGED <<uuids, starts, tasks, registry, stopping, emitted, returned>>
    /\ UNCHANGED <<cacheVars, dispatchVars, parseVars, lockVars, terminalVars, callVars>>

\* the runtime polls an idle task that is not aborted
TaskResume(t) ==
    /\ tasks[t].pc = "idle"
    /\ ~tasks[t].abort
    /\ tasks' = [tasks EXCEPT ![t].pc = "polling"]
    /\ UNCHANGED <<uuids, starts, registry, stopping, emitted, returned, stopped>>
    /\ UNCHANGED <<cacheVars, dispatchVars, parseVars, lockVars, terminalVars, callVars>>

\* the runtime drops an idle task that is aborted
TaskCancel(t) ==
    /\ tasks[t].pc = "idle"
    /\ tasks[t].abort
    /\ tasks' = [tasks EXCEPT ![t].pc = "cancelled"]
    /\ UNCHANGED <<uuids, starts, registry, stopping, emitted, returned, stopped>>
    /\ UNCHANGED <<cacheVars, dispatchVars, parseVars, lockVars, terminalVars, callVars>>

\* stream.next() yields Some(result)
StreamItem(t) ==
    /\ tasks[t].pc = "polling"
    /\ Delivered(tasks) < MaxItems
    /\ \E item \in StreamItems :
          tasks' = [tasks EXCEPT ![t].pc = "pulled", ![t].item = item,
                                 ![t].seq = @ + 1]
    /\ UNCHANGED <<uuids, starts, registry, stopping, emitted, returned, stopped>>
    /\ UNCHANGED <<cacheVars, dispatchVars, parseVars, lockVars, terminalVars, callVars>>

\* stream.next() is pending: the task is suspended
StreamPending(t) ==
    /\ tasks[t].pc = "polling"
    /\ tasks' = [tasks EXCEPT ![t].pc = "idle"]
    /\ UNCHANGED <<uuids, starts, registry, stopping, emitted, returned, stopped>>
    /\ UNCHANGED <<cacheVars, dispatchVars, parseVars, lockVars, terminalVars, callVars>>

\* stream.next() yields None: the loop and the task end
StreamEnd(t) ==
    /\ tasks[t].pc = "polling"
    /\ tasks' = [tasks EXCEPT ![t].pc = "finished"]
    /\ UNCHANGED <<uuids, starts, registry, stopping, emitted, returned, stopped>>
    /\ UNCHANGED <<cacheVars, dispatchVars, parseVars, lockVars, terminalVars, callVars>>

\* the body of the loop for the item pulled
Process(t) ==
    /\ tasks[t].pc = "pulled"
    /\ IF tasks[t].item.tag = "Err"
       THEN /\ tasks' = [tasks EXCEPT ![t] = AfterError(@)]
            /\ emitted' = emitted
       ELSE /\ tasks' = [tasks EXCEPT ![t].pc = "polling", ![t].item = NoItem]
            /\ emitted' =
                  IF Swallowed(tasks[t].item) THEN emitted
                  ELSE Append(emitted,
                              Emission(tasks[t].watch_id, tasks[t].item,
                                       tasks[t].seq,
                                       tasks[t].watch_id \in stopped))
    /\ UNCHANGED <<uuids, starts, registry, stopping, returned, stopped>>
    /\ UNCHANGED <<cacheVars, dispatchVars, parseVars, lockVars, terminalVars, callVars>>

WatchNext ==
    \/ StartWatch
    \/ \E w \in WatchIds : StartRegister(w)
    \/ \E w \in WatchIds : StartUnsupported(w)
    \/ \E w \in WatchIds \cup {UnknownId} : StopRemove(w)
    \/ \E w \in WatchIds \cup {UnknownId} : StopAbort(w)
    \/ \E w \in WatchIds \cup {UnknownId} : StopNoEntry(w)
    \/ \E t \in DOMAIN tasks : TaskResume(t)
    \/ \E t \in DOMAIN tasks : TaskCancel(t)
    \/ \E t \in DOMAIN tasks : StreamItem(t)
    \/ \E t \in DOMAIN tasks : StreamPending(t)
    \/ \E t \in DOMAIN tasks : StreamEnd(t)
    \/ \E t \in DOMAIN tasks : Process(t)

(***************************************************************************)
(* Watches next to the pool: start_watch_resources takes its client from   *)
(* get_or_create_raw_client and moves an Api built on a clone of it into   *)
(* the task; invoked.output records, per watch id, the handle of the task. *)
(***************************************************************************)
Watchers == {"p1"}

\* start_watch_resources from the client on: the id is generated and, for a
\* kind of the watch set, the task is spawned with the client
StartWatchOn(p) ==
    /\ invoked.cmd = "start_watch_resources"
    /\ procs[p].pc = "done"
    /\ procs[p].ok
    /\ uuids < MaxWatches
    /\ \E kind \in WatchKindInputs :
          LET watch_id == UuidNewV4(uuids)
          IN  /\ uuids' = uuids + 1
              /\ tasks' = IF Spawns(kind) THEN Append(tasks, NewTask(watch_id))
                          ELSE tasks
              /\ starts' = Put(starts, watch_id,
                               IF Spawns(kind) THEN Len(tasks) + 1 ELSE 0)
              /\ invoked' = IF Spawns(kind)
                            THEN [invoked EXCEPT !.output =
                                     Put(@, watch_id, procs[p].client)]
                            ELSE invoked
    /\ procs' = [procs EXCEPT ![p] = IdleProc]
    /\ UNCHANGED <<now, kubeconfig_path, path_lock, pool, constructions, lastRet>>
    /\ UNCHANGED <<registry, stopping, emitted, returned, stopped>>
    /\ UNCHANGED <<dispatchVars, parseVars, lockVars, terminalVars>>

KeepNext ==
    \/ Tick
    \/ \E p \in Watchers : ReadPath(p)
    \/ \E p \in Watchers : Lookup(p)
    \/ \E p \in Watchers : Construct(p)
    \/ \E p \in Watchers : Insert(p)
    \/ \E p \in Watchers : StartWatchOn(p)
    \/ SetPathStore
    \/ SetPathClear
    \/ \E w \in WatchIds : StartRegister(w)
    \/ \E w \in WatchIds : StartUnsupported(w)
    \/ \E w \in WatchIds : StopRemove(w)
    \/ \E w \in WatchIds : StopAbort(w)
    \/ \E t \in DOMAIN tasks : TaskResume(t)
    \/ \E t \in DOMAIN tasks : TaskCancel(t)
    \/ \E t \in DOMAIN tasks : StreamItem(t)
    \/ \E t \in DOMAIN tasks : StreamPending(t)
    \/ \E t \in DOMAIN tasks : Process(t)

(***************************************************************************)
(* The mutexes of the managed state: KubeconfigPath (lib.rs) and           *)
(* K8sClientPool (k8s_api.rs), and the order in which a command locks and  *)
(* drops them.  A command is a sequence of steps; a step with returns set  *)
(* is one after which the command may return early.                        *)
(***************************************************************************)
Threads == {"t1", "t2", "t3"}
Free == "<free>"
KubeconfigPathMutex == "kubeconfig_path"
ClientPoolMutex == "client_pool"
Mutexes == {KubeconfigPathMutex, ClientPoolMutex}

LockOf(m) == [op |-> "lock", mutex |-> m, returns |-> FALSE]
DropOf(m, returns) == [op |-> "drop", mutex |-> m, returns |-> returns]
AwaitOf(returns) == [op |-> "await", mutex |-> None, returns |-> returns]

\* set_kubeconfig_path: `current` is held until the function returns, the
\* guard of the pool is a temporary of the statement that clears it
SetKubeconfigPathSteps ==
    << LockOf(KubeconfigPathMutex),
       LockOf(ClientPoolMutex),
       DropOf(ClientPoolMutex, FALSE),
       DropOf(KubeconfigPathMutex, FALSE) >>

\* a command that takes the pool before it reads the path
GetOrCreatePoolFirst ==
    << LockOf(ClientPoolMutex),
       LockOf(KubeconfigPathMutex),
       DropOf(KubeconfigPathMutex, FALSE),
       DropOf(ClientPoolMutex, TRUE),
       AwaitOf(TRUE),
       LockOf(ClientPoolMutex),
       DropOf(ClientPoolMutex, FALSE) >>

\* list_resources and the other commands of k8s_api.rs: the path is cloned
\* under a guard that is a temporary of that statement, then
\* get_or_create_raw_client: one block for retain and get (a hit returns),
\* RealK8sClient::new awaited with no guard alive (an error returns), one
\* block for the insert
GetOrCreateSteps ==
    << LockOf(KubeconfigPathMutex),
       DropOf(KubeconfigPathMutex, FALSE),
       LockOf(ClientPoolMutex),
       DropOf(ClientPoolMutex, TRUE),
       AwaitOf(TRUE),
       LockOf(ClientPoolMutex),
       DropOf(ClientPoolMutex, FALSE) >>

LockingCommands == {"set_kubeconfig_path", "list_resources"}

StepsOf(cmd) ==
    IF cmd = "set_kubeconfig_path" THEN SetKubeconfigPathSteps ELSE GetOrCreateSteps

IdleThread == [cmd |-> None, pc |-> 0]

\* threads holds the threads that run a command
Thread(t) == IF t \in DOMAIN threads THEN threads[t] ELSE IdleThread

Kept(map, key, value, idle) ==
    IF value = idle THEN RemoveKey(map, key) ELSE Put(map, key, value)

CurrentStep(t) == StepsOf(Thread(t).cmd)[Thread(t).pc]

AtStep(t, op) == Thread(t).cmd # None /\ CurrentStep(t).op = op

\* the thread after its current step: the next step, or the return
Advanced(t, returns) ==
    IF returns \/ Thread(t).pc = Len(StepsOf(Thread(t).cmd))
    THEN IdleThread
    ELSE [Thread(t) EXCEPT !.pc = @ + 1]

Exits(t) == IF CurrentStep(t).returns THEN BOOLEAN ELSE {FALSE}

LocksIdle ==
    /\ guards = [m \in Mutexes |-> Free]
    /\ threads = <<>>

\* the command is invoked
Call(t) ==
    /\ Thread(t).cmd = None
    /\ \E cmd \in LockingCommands :
          threads' = Kept(threads, t, [cmd |-> cmd, pc |-> 1], IdleThread)
    /\ UNCHANGED guards
    /\ UNCHANGED <<cacheVars, dispatchVars, parseVars, watchVars, callVars, terminalVars>>

\* Mutex::lock returns the guard
Lock(t) ==
    /\ AtStep(t, "lock")
    /\ guards[CurrentStep(t).mutex] = Free
    /\ guards' = [guards EXCEPT ![CurrentStep(t).mutex] = t]
    /\ threads' = Kept(threads, t, Advanced(t, FALSE), IdleThread)
    /\ UNCHANGED <<cacheVars, dispatchVars, parseVars, watchVars, callVars, terminalVars>>

\* the guard goes out of scope
Drop(t) ==
    /\ AtStep(t, "drop")
    /\ guards[CurrentStep(t).mutex] = t
    /\ guards' = [guards EXCEPT ![CurrentStep(t).mutex] = Free]
    /\ \E returns \in Exits(t) :
          threads' = Kept(threads, t, Advanced(t, returns), IdleThread)
    /\ UNCHANGED <<cacheVars, dispatchVars, parseVars, watchVars, callVars, terminalVars>>

\* RealK8sClient::new(...).await completes
Await(t) ==
    /\ AtStep(t, "await")
    /\ \E returns \in Exits(t) :
          threads' = Kept(threads, t, Advanced(t, returns), IdleThread)
    /\ UNCHANGED guards
    /\ UNCHANGED <<cacheVars, dispatchVars, parseVars, watchVars, callVars, terminalVars>>

LocksNext ==
    \/ \E t \in Threads : Call(t)
    \/ \E t \in Threads : Lock(t)
    \/ \E t \in Threads : Drop(t)
    \/ \E t \in Threads : Await(t)

(***************************************************************************)
(* The terminal sessions of terminal.rs.                                   *)
(***************************************************************************)
Callers == {"u1", "u2"}

\* session ids are the numbers of the Uuid::new_v4() calls; the temporary
\* kubeconfig of session n is file n, and 0 stands for Option::None
SessionIds == 1..MaxSessions
NoFile == 0

\* what a command returned: Ok (for create, the id) or the error
NoResult == [cmd |-> None, session_id |-> 0, ok |-> TRUE, err |-> None]
Returned(cmd, id, err) ==
    [cmd |-> cmd, session_id |-> id, ok |-> err = None, err |-> err]

\* a PTY writer: the bytes one call of write accepts at most, or that it
\* fails
ChunkSizes == {0, 1, 2}
Writers == [accepts : ChunkSizes, fails : BOOLEAN]
NoWriter == [accepts |-> 0, fails |-> FALSE]

IdleCommand ==
    [cmd |-> None, pc |-> "idle", session_id |-> 0, temp_kubeconfig |-> NoFile,
     writer |-> NoWriter, data |-> 0, written |-> 0, turn |-> FALSE,
     result |-> NoResult]

\* commands holds the callers that run a command or hold a result
Command(c) == IF c \in DOMAIN commands THEN commands[c] ELSE IdleCommand

\* the command returns: its locals are dropped, the caller holds the result
Finished(cmd, id, err) == [IdleCommand EXCEPT !.result = Returned(cmd, id, err)]

\* the commands that have not returned
InFlight(cs) == [c \in {d \in DOMAIN cs : cs[d].pc # "idle"} |-> cs[c]]

\* the command of caller c returns; the result of the command that returned
\* last is the one kept
Returning(c, cmd, id, err) == Put(InFlight(commands), c, Finished(cmd, id, err))

\* create_temp_kubeconfig: the original is missing, unreadable or not YAML
\* ("unread": nothing was created), the file is opened with create(true) and
\* write_all fails ("unwritten"), or the path of the written file is returned
TempOutcomes == {"unread", "unwritten", "written"}

CreateTempKubeconfig(n, outcome) ==
    [ok |-> outcome = "written",
     created |-> IF outcome = "unread" THEN {} ELSE {n},
     file |-> IF outcome = "written" THEN n ELSE NoFile]

\* the steps between the temporary kubeconfig and the registration
SetupFailures ==
    {"Failed to create PTY", "Failed to spawn shell", "Failed to clone reader",
     "Failed to take writer"}

TerminalIdle ==
    /\ sessions = <<>>
    /\ temp_files = {}
    /\ sessions_guard = Free
    /\ commands = <<>>
    /\ killed = {}
    /\ session_ids = 0

\* create_terminal_session up to the temporary kubeconfig: the shell path is
\* validated, the id generated, the kubeconfig path cloned under its lock
CreateTerminalSession(c) ==
    /\ Command(c).pc = "idle"
    /\ session_ids < MaxSessions
    /\ path_lock = "free"
    /\ \E shell_exists \in BOOLEAN, context_name \in Contexts \cup {None},
          outcome \in TempOutcomes :
          LET id == session_ids + 1
              temp == CreateTempKubeconfig(id, outcome)
          IN  IF ~shell_exists
              THEN /\ commands' = Returning(c, "create", 0, "Shell not found")
                   /\ UNCHANGED <<temp_files, session_ids>>
              ELSE IF context_name = None
              THEN /\ commands' = Put(commands, c,
                          [IdleCommand EXCEPT !.cmd = "create", !.pc = "setup",
                                              !.session_id = id])
                   /\ session_ids' = id
                   /\ UNCHANGED temp_files
              ELSE /\ temp_files' = temp_files \cup temp.created
                   /\ session_ids' = id
                   /\ commands' =
                          IF temp.ok
                          THEN Put(commands, c,
                                   [IdleCommand EXCEPT !.cmd = "create", !.pc = "setup",
                                                       !.session_id = id,
                                                       !.temp_kubeconfig = temp.file])
                          ELSE Returning(c, "create", 0, "kubeconfig")
    /\ UNCHANGED <<sessions, sessions_guard, killed>>
    /\ UNCHANGED <<cacheVars, dispatchVars, parseVars, watchVars, callVars, lockVars>>

\* create_terminal_session: openpty, spawn_command, try_clone_reader and
\* take_writer, each followed by `?`
SetupPty(c) ==
    /\ Command(c).pc = "setup"
    /\ \/ \E failure \in SetupFailures :
             commands' = Returning(c, "create", 0, failure)
       \/ \E writer \in Writers :
             commands' = Put(commands, c,
                 [Command(c) EXCEPT !.pc = "register", !.writer = writer])
    /\ UNCHANGED <<sessions, temp_files, sessions_guard, killed, session_ids>>
    /\ UNCHANGED <<cacheVars, dispatchVars, parseVars, watchVars, callVars, lockVars>>

\* create_terminal_session: sessions.lock()?.insert(session_id, session)
RegisterSession(c) ==
    /\ Command(c).pc = "register"
    /\ sessions_guard = Free
    /\ sessions' = Put(sessions, Command(c).session_id,
                       [temp_kubeconfig |-> Command(c).temp_kubeconfig,
                        writer |-> Command(c).writer])
    /\ commands' = Returning(c, "create", Command(c).session_id, None)
    /\ UNCHANGED <<temp_files, sessions_guard, killed, session_ids>>
    /\ UNCHANGED <<cacheVars, dispatchVars, parseVars, watchVars, callVars, lockVars>>

\* a write that clones the writer and drops the guard of the registry
WriteToTerminalUnlocked(c) ==
    /\ Command(c).pc = "idle"
    /\ sessions_guard = Free
    /\ \E session_id \in SessionIds, data \in 0..MaxData :
          IF session_id \in DOMAIN sessions
          THEN commands' = Put(commands, c,
                      [IdleCommand EXCEPT !.cmd = "write", !.pc = "writing",
                                          !.session_id = session_id,
                                          !.writer = sessions[session_id].writer,
                                          !.data = data])
          ELSE commands' = Returning(c, "write", session_id, "Session not found")
    /\ UNCHANGED <<sessions, temp_files, sessions_guard, killed, session_ids>>
    /\ UNCHANGED <<cacheVars, dispatchVars, parseVars, watchVars, callVars, lockVars>>

\* write_to_terminal: sessions.lock()?, sessions.get(&session_id); the guard
\* lives until the function returns
WriteToTerminal(c) ==
    /\ Command(c).pc = "idle"
    /\ sessions_guard = Free
    /\ \E session_id \in SessionIds, data \in 0..MaxData :
          IF session_id \in DOMAIN sessions
          THEN /\ sessions_guard' = c
               /\ commands' = Put(commands, c,
                      [IdleCommand EXCEPT !.cmd = "write", !.pc = "writing",
                                          !.session_id = session_id,
                                          !.writer = sessions[session_id].writer,
                                          !.data = data])
          ELSE /\ sessions_guard' = Free
               /\ commands' = Returning(c, "write", session_id, "Session not found")
    /\ UNCHANGED <<sessions, temp_files, killed, session_ids>>
    /\ UNCHANGED <<cacheVars, dispatchVars, parseVars, watchVars, callVars, lockVars>>

\* writer.write(&bytes[written..]): Ok(n) with n at most the bytes left
Accepted(writer, left) == IF writer.accepts < left THEN writer.accepts ELSE left

\* write_to_terminal: one turn of `while written < bytes.len()` (turn is the
\* parity of the calls of write), or, past the loop, the flush and the return
WriteLoop(c) ==
    /\ Command(c).pc = "writing"
    /\ LET left == Command(c).data - Command(c).written
           id == Command(c).session_id
       IN  IF left > 0
           THEN IF Command(c).writer.fails
                THEN /\ commands' = Returning(c, "write", id, "Failed to write to terminal")
                     /\ sessions_guard' = Free
                ELSE /\ commands' = Put(commands, c,
                            [Command(c) EXCEPT
                                !.written = @ + Accepted(Command(c).writer, left),
                                !.turn = ~@])
                     /\ sessions_guard' = sessions_guard
           ELSE /\ \E flushed \in BOOLEAN :
                      commands' = Returning(c, "write", id,
                                   IF flushed THEN None
                                   ELSE "Failed to flush terminal")
                /\ sessions_guard' = Free
    /\ UNCHANGED <<sessions, temp_files, killed, session_ids>>
    /\ UNCHANGED <<cacheVars, dispatchVars, parseVars, watchVars, callVars, lockVars>>

\* close_terminal_session: under the guard of the registry the session is
\* removed, its child killed and its temporary kubeconfig removed
CloseTerminalSession(c) ==
    /\ Command(c).pc = "idle"
    /\ sessions_guard = Free
    /\ \E session_id \in SessionIds :
          /\ IF session_id \in DOMAIN sessions
             THEN /\ sessions' = RemoveKey(sessions, session_id)
                  /\ killed' = killed \cup {session_id}
                  /\ temp_files' = temp_files \ {sessions[session_id].temp_kubeconfig}
             ELSE UNCHANGED <<sessions, killed, temp_files>>
          /\ commands' = Returning(c, "close", session_id, None)
    /\ UNCHANGED <<sessions_guard, session_ids>>
    /\ UNCHANGED <<cacheVars, dispatchVars, parseVars, watchVars, callVars, lockVars>>

TerminalNext ==
    \/ \E c \in Callers : CreateTerminalSession(c)
    \/ \E c \in Callers : SetupPty(c)
    \/ \E c \in Callers : RegisterSession(c)
    \/ \E c \in Callers : WriteToTerminal(c)
    \/ \E c \in Callers : WriteLoop(c)
    \/ \E c \in Callers : CloseTerminalSession(c)

Init ==
    /\ CacheInit
    /\ LocksIdle
    /\ TerminalIdle
    /\ DispatchIdle
    /\ ParseIdle
    /\ WatchInit
    /\ CallIdle

Next ==
    \/ Tick
    \/ \E p \in Procs : ReadPath(p)
    \/ \E p \in Procs : Lookup(p)
    \/ \E p \in Procs : Construct(p)
    \/ \E p \in Procs : Insert(p)
    \/ \E p \in Procs : Return(p)
    \/ SetPathStore
    \/ SetPathClear

Spec == Init /\ [][Next]_vars

\* the same commands, called with or without a context, with no time passing
SwitchNext ==
    \/ \E p \in Procs : ReadPath(p)
    \/ \E p \in Procs : Lookup(p)
    \/ \E p \in Procs : Construct(p)
    \/ \E p \in Procs : Insert(p)
    \/ \E p \in Procs : Return(p)
    \/ SetPathStore
    \/ SetPathClear

InitSwitch ==
    /\ CacheInit
    /\ LocksIdle
    /\ TerminalIdle
    /\ DispatchIdle
    /\ ParseIdle
    /\ WatchInit
    /\ invoked = [NoCall EXCEPT !.cmd = "any context"]

SpecSwitch == InitSwitch /\ [][SwitchNext]_vars

\* watches started on pooled clients, while the path is switched and the
\* pool is swept
InitKeep ==
    /\ CacheInit
    /\ LocksIdle
    /\ TerminalIdle
    /\ DispatchIdle
    /\ ParseIdle
    /\ WatchInit
    /\ invoked = [NoCall EXCEPT !.cmd = "start_watch_resources"]

SpecKeep == InitKeep /\ [][KeepNext]_vars

(***************************************************************************)
(* The commands on the two mutexes, every thread scheduled again and       *)
(* again: a thread blocked in Mutex::lock gets the mutex if the mutex is   *)
(* free again and again, a thread that runs takes its next step.           *)
(***************************************************************************)
InitLocks ==
    /\ CacheInit
    /\ LocksIdle
    /\ TerminalIdle
    /\ DispatchIdle
    /\ ParseIdle
    /\ WatchInit
    /\ CallIdle

LockFairness ==
    \A t \in Threads :
        /\ SF_vars(Lock(t))
        /\ WF_vars(Drop(t))
        /\ WF_vars(Await(t))

SpecLocks == InitLocks /\ [][LocksNext]_vars /\ LockFairness

(***************************************************************************)
(* The terminal commands, and the same with every command that runs taking *)
(* its next step.                                                          *)
(***************************************************************************)
SpecTerminal == InitLocks /\ [][TerminalNext]_vars

TerminalFairness ==
    \A c \in Callers :
        /\ WF_vars(SetupPty(c))
        /\ WF_vars(RegisterSession(c))
        /\ WF_vars(WriteLoop(c))

SpecTerminalFair == InitLocks /\ [][TerminalNext]_vars /\ TerminalFairness

DispatchNext ==
    \/ ListCmd
    \/ GetCmd
    \/ DeleteCmd
    \/ TakeResult

\* the commands against a cluster that holds objects of one type
InitDispatch ==
    /\ CacheInit
    /\ LocksIdle
    /\ TerminalIdle
    /\ ParseIdle
    /\ WatchInit
    /\ CallIdle
    /\ resp = NoResp
    /\ \E t \in PopulatedTypes : cluster = Universe(t)

SpecDispatch == InitDispatch /\ [][DispatchNext]_vars

\* the commands against a cluster in which one object of the type cannot be
\* serialized
InitSerialize ==
    /\ CacheInit
    /\ LocksIdle
    /\ TerminalIdle
    /\ ParseIdle
    /\ WatchInit
    /\ CallIdle
    /\ resp = NoResp
    /\ \E t \in PopulatedTypes : cluster = FlawedUniverse(t)

SpecSerialize == InitSerialize /\ [][DispatchNext]_vars

\* the segments a token is formatted from: no segment holds a '/'
SegmentChoices == {<<>>, Str("g"), Str("v1"), Str("widgets"), Str("Namespaced")}

FieldSeqs == UNION {[1..n -> SegmentChoices] : n \in 0..MaxSegments}

\* the commands on a token formatted from up to MaxSegments segments
InitParse ==
    /\ CacheInit
    /\ LocksIdle
    /\ TerminalIdle
    /\ WatchInit
    /\ CallIdle
    /\ resp = NoResp
    /\ cluster = Universe("widgets")
    /\ \E fields \in FieldSeqs :
          token = [fields |-> fields, text |-> JoinSlash(fields), drawn |-> TRUE]

SpecParse == InitParse /\ [][DispatchNext]_vars

\* the watch manager alone
InitWatch ==
    /\ CacheInit
    /\ LocksIdle
    /\ TerminalIdle
    /\ DispatchIdle
    /\ ParseIdle
    /\ WatchInit
    /\ CallIdle

SpecWatch == InitWatch /\ [][WatchNext]_vars

\* the watch manager while no stream delivers an item
IdleNext ==
    \/ StartWatch
    \/ \E w \in WatchIds : StartRegister(w)
    \/ \E w \in WatchIds : StartUnsupported(w)
    \/ \E w \in WatchIds \cup {UnknownId} : StopRemove(w)
    \/ \E w \in WatchIds \cup {UnknownId} : StopAbort(w)
    \/ \E w \in WatchIds \cup {UnknownId} : StopNoEntry(w)
    \/ \E t \in DOMAIN tasks : TaskResume(t)
    \/ \E t \in DOMAIN tasks : TaskCancel(t)
    \/ \E t \in DOMAIN tasks : StreamPending(t)
    \/ \E t \in DOMAIN tasks : StreamEnd(t)

\* a call of start_watch_resources that can take its next step takes it
StartFairness ==
    \A w \in WatchIds :
        WF_vars(StartRegister(w)) /\ WF_vars(StartUnsupported(w))

SpecWatchIdle == InitWatch /\ [][IdleNext]_vars /\ StartFairness


(***************************************************************************)
(* Properties of the client pool (checked under Spec).                     *)
(***************************************************************************)
PastLookup(p) == procs[p].pc \in {"construct", "insert", "done"}

\* C1: every get-or-create first removes, under the pool lock, every entry
\* whose age is >= 300 s, and only then consults the map: a handle returned
\* from the pool comes from an entry younger than 300 s, and an identity whose
\* entry was removed goes on to build a new handle.
C1_SweepBeforeLookup ==
    [][\A p \in Procs :
          (procs[p].pc = "lookup" /\ procs'[p].pc # "lookup") =>
             /\ \A k \in DOMAIN pool' :
                   Elapsed(pool'[k].created_at, now) < CLIENT_CACHE_TTL
             /\ procs'[p].hit =>
                   /\ procs'[p].age < CLIENT_CACHE_TTL
                   /\ ProcKey(p) \in DOMAIN pool'
                   /\ procs'[p].client = pool'[ProcKey(p)].client
             /\ ~procs'[p].hit => procs'[p].pc = "construct"]_vars

\* C1 witness: a lookup found the identity's entry expired, removed it and
\* went on to construct
C1_Witness ==
    \E p \in Procs :
        /\ procs[p].pc = "construct"
        /\ procs[p].priorValid
        /\ ~procs[p].sinceCreated

\* C2 (as claimed): a call made less than 300 s after the previous call for
\* the same identity returns the connection the previous call returned.
C2_SpacedCallsShareConnection ==
    \A p \in Procs :
        (PastLookup(p) /\ procs[p].priorValid /\ procs[p].sincePrior)
            => (procs[p].hit /\ procs[p].client = procs[p].priorClient)

\* C2 (amended): a call made less than 300 s after the creation (insertion)
\* of the connection the previous call returned, returns that connection and
\* constructs nothing.
C2_CallsWithinTtlOfCreationShareConnection ==
    \A p \in Procs :
        (PastLookup(p) /\ procs[p].priorValid /\ procs[p].sinceCreated)
            => /\ procs[p].pc = "done"
               /\ procs[p].ok
               /\ procs[p].hit
               /\ ~procs[p].constructed
               /\ procs[p].client = procs[p].priorClient

\* C2 witness: a hit on an entry that has aged, but less than the TTL
C2_Witness ==
    \E p \in Procs :
        /\ procs[p].pc = "done"
        /\ procs[p].hit
        /\ procs[p].priorValid
        /\ procs[p].sinceCreated
        /\ procs[p].age > 0

\* C3: a call made at least 300 s after the prior call for its identity does
\* not return the cached handle; it constructs a new one.
C3_CallAfterTtlReconstructs ==
    \A p \in Procs :
        (PastLookup(p) /\ procs[p].priorSome /\ ~procs[p].sincePrior)
            => /\ ~procs[p].hit
               /\ (procs[p].pc = "done" /\ procs[p].ok)
                     => /\ procs[p].constructed
                        /\ procs[p].client # procs[p].priorClient
                        /\ procs[p].client.id > procs[p].priorClient.id

\* C3 witness: a call that came 300 s or more after the prior one, with no
\* invalidation in between, has returned a newly constructed handle
C3_Witness ==
    \E p \in Procs :
        /\ procs[p].pc = "done"
        /\ procs[p].ok
        /\ procs[p].priorValid
        /\ ~procs[p].sincePrior
        /\ procs[p].constructed

\* C4 (as claimed): two requests with equal identities, with no expiry and
\* no invalidation between them, resolve to the same connection in every
\* interleaving.
C4_EqualIdentitiesShareConnection ==
    \A p, q \in Procs :
        ( /\ p # q
          /\ procs[p].pc = "done" /\ procs[q].pc = "done"
          /\ procs[p].ok /\ procs[q].ok
          /\ Identity(p) = Identity(q)
          /\ ~procs[p].disturbed /\ ~procs[q].disturbed )
            => procs[p].client = procs[q].client

\* C4 (amended): a request whose lookup finds the entry of its identity
\* returns the connection most recently returned or inserted for that
\* identity; a request that misses returns the handle it constructed itself,
\* and the pool keeps the handle inserted last.
C4_LookupSharesLatestConnection ==
    /\ \A k \in DOMAIN pool :
          /\ lastRet[k].valid
          /\ lastRet[k].client = pool[k].client
    /\ \A p \in Procs :
          procs[p].pc = "done" =>
             /\ procs[p].hit =>
                   /\ procs[p].priorValid
                   /\ procs[p].client = procs[p].priorClient
                   /\ ~procs[p].constructed
             /\ (procs[p].ok /\ ~procs[p].hit) =>
                   /\ procs[p].constructed
                   /\ procs[p].client.id \in 1..constructions
                   /\ procs[p].client # procs[p].priorClient

\* C4 witness: one request missed and inserted, the other found that entry
C4_Witness ==
    \E p, q \in Procs :
        /\ p # q
        /\ procs[p].pc = "done" /\ procs[q].pc = "done"
        /\ Identity(p) = Identity(q)
        /\ procs[p].constructed
        /\ procs[q].hit
        /\ procs[q].client = procs[p].client

\* C5: once set_kubeconfig_path has completed, every handle in the pool was
\* resolved under the kubeconfig path that is now active.
C5_NoStaleHandleAfterSwitch ==
    path_lock = "free" =>
        \A k \in DOMAIN pool : pool[k].client.kubeconfig_path = kubeconfig_path

(***************************************************************************)
(* Dispatch by kind: the state a command leaves behind.                    *)
(***************************************************************************)
\* what the caller receives, and the cluster the command leaves
Outcome(r) ==
    [ok |-> r.ok, err |-> r.err, items |-> r.items, events |-> r.events,
     empty |-> r.empty, cluster |-> r.cluster]

IsBadRequest(e) ==
    e.variant = "Kube" /\ e.reason = "BadRequest" /\ e.code = 400

\* C6: get_resource_detail and delete_resource of a namespaced kind (the 21
\* built-in namespaced kinds, a custom resource of scope Namespaced) with the
\* namespace absent fail with 'Namespace required for <kind>', BadRequest
\* 400, and issue no call to the API server.
C6_NamespaceRequiredForNamespacedKinds ==
    (/\ resp.cmd \in {"get", "delete"}
     /\ resp.ns = None
     /\ (IsArm(resp.kind, NamespacedTypes) \/ resp.kind = WidgetKind))
    => /\ ~resp.result.ok
       /\ IsBadRequest(resp.result.err)
       /\ resp.result.err.text = "Namespace required for "
       /\ resp.result.err.arg =
              (IF resp.kind = WidgetKind THEN Str("CustomResource") ELSE resp.kind)
       /\ resp.result.calls = <<>>
       /\ resp.result.cluster = resp.before

\* C7: for a cluster-scoped kind, list_resources, get_resource_detail and
\* delete_resource with a namespace supplied return exactly what they return
\* with no namespace supplied.
C7_NamespaceIgnoredForClusterKinds ==
    /\ (/\ resp.cmd = "list"
        /\ resp.ns # None
        /\ IsArm(resp.kind, {"Nodes", "Namespaces", "PersistentVolumes",
                             "StorageClasses", "ClusterRoles",
                             "ClusterRoleBindings"}))
       => Outcome(resp.result)
              = Outcome(ListResources(resp.kind, None, resp.before, resp.fail))
    /\ (/\ resp.cmd = "get"
        /\ resp.ns # None
        /\ IsArm(resp.kind, ClusterTypes))
       => Outcome(resp.result)
              = Outcome(GetResourceDetail(resp.kind, resp.name, None,
                                          resp.before, resp.fail))
    /\ (/\ resp.cmd = "delete"
        /\ resp.ns # None
        /\ IsArm(resp.kind, ClusterTypes))
       => Outcome(resp.result)
              = Outcome(DeleteResource(resp.kind, resp.name, None,
                                       resp.before, resp.fail))

\* the type a namespaced list kind names
ListedType(kind) ==
    IF kind = WidgetKind THEN WidgetType ELSE Typed(ListNamespacedKinds[kind[1]])

\* C8: list_resources of a namespaced kind returns the objects of every
\* namespace when the namespace is absent and the objects of namespace ns
\* when it is ns; it fails only when the API server's list fails, never for
\* the absent namespace.
C8_NamespacedListScope ==
    (/\ resp.cmd = "list"
     /\ (IsArm(resp.kind, DOMAIN ListNamespacedKinds) \/ resp.kind = WidgetKind))
    => /\ resp.fail = "none" =>
             /\ resp.result.ok
             /\ resp.result.items =
                    {ToValue(o) : o \in
                        {p \in resp.before :
                            /\ p.type = ListedType(resp.kind)
                            /\ (resp.ns = None \/ p.ns = resp.ns)}}
       /\ ~resp.result.ok => (resp.fail = "first" /\ resp.result.err = ServerFailure)
       /\ resp.result.calls =
              <<ApiCall("list", ListedType(resp.kind), resp.ns, None)>>

C8_Witness ==
    /\ resp.cmd = "list"
    /\ resp.kind = Str("Pods")
    /\ resp.ns = "a"
    /\ Obj(Typed("Pod"), "b", "x") \in resp.before
    /\ resp.result.ok
    /\ resp.result.items = {ToValue(Obj(Typed("Pod"), "a", "x"))}

\* C9: delete_resource with a kind that is neither one of the built-in kinds
\* it supports nor a 'cr:' token fails with BadRequest 400 naming the kind,
\* issues no call and leaves the cluster as it was.
C9_UnknownKindDeleteRejected ==
    (/\ resp.cmd = "delete"
     /\ ~IsArm(resp.kind, DeleteNamespacedKinds \cup DeleteClusterKinds)
     /\ ~StartsWithCr(resp.kind))
    => /\ ~resp.result.ok
       /\ IsBadRequest(resp.result.err)
       /\ resp.result.err.arg = resp.kind
       /\ resp.result.calls = <<>>
       /\ resp.result.cluster = resp.before

C9_Witness ==
    /\ resp.cmd = "delete"
    /\ resp.kind = Str("Widget")
    /\ resp.name = "x"
    /\ ~resp.result.ok
    /\ resp.result.err = UnsupportedDeleteKind(Str("Widget"))

\* C10: a token formatted from four slash-free fields parses back to these
\* four fields in order, so that the commands address (group, version,
\* plural) under the scope, and re-joining the parts gives the token back; a
\* token of fewer than four segments is answered with BadRequest 400 by
\* list, get and delete, without a call.
C10_TokenRoundTrip ==
    token.drawn =>
        /\ CrKind(JoinSlash(CrParts(CrKind(token.text)))) = CrKind(token.text)
        /\ Len(token.fields) = 4 => CrParts(CrKind(token.text)) = token.fields
        /\ (Len(token.fields) = 4 /\ resp.cmd # "none") =>
              /\ resp.kind = CrKind(token.text)
              /\ ~IsBadRequest(resp.result.err)
                     \/ resp.result.err
                            = RequireNamespace(Str("CustomResource"))
              /\ resp.result.calls # <<>> =>
                    /\ Len(resp.result.calls) = 1
                    /\ resp.result.calls[1].verb = resp.cmd
                    /\ resp.result.calls[1].type =
                           Dynamic(token.fields[1], token.fields[2],
                                   token.fields[3])
                    /\ resp.result.calls[1].ns =
                           (IF token.fields[4] = Str("Namespaced")
                            THEN resp.ns ELSE None)
              /\ (resp.cmd = "list" /\ resp.fail = "none") =>
                    (resp.result.ok /\ resp.result.calls # <<>>)
        /\ (Len(token.fields) < 4 /\ resp.cmd # "none") =>
              /\ ~resp.result.ok
              /\ resp.result.err = InvalidCrKind(CrKind(token.text))
              /\ IsBadRequest(resp.result.err)
              /\ resp.result.calls = <<>>

C10_Witness ==
    /\ token.drawn
    /\ token.fields = <<Str("g"), Str("v1"), Str("widgets"), Str("Namespaced")>>
    /\ resp.cmd = "get"
    /\ resp.name = "x"
    /\ resp.ns = "a"
    /\ resp.result.ok
    /\ resp.result.items = {ToValue(Obj(WidgetType, "a", "x"))}

\* C11: a token whose segment count is not four, more than four included,
\* is answered with BadRequest 400 by list, get and delete, without a call.
C11_WrongSegmentCountRejected ==
    (token.drawn /\ Len(token.fields) # 4 /\ resp.cmd # "none")
    => /\ ~resp.result.ok
       /\ IsBadRequest(resp.result.err)
       /\ resp.result.calls = <<>>

(***************************************************************************)
(* The watch manager: ids, tasks, registry and emissions.                  *)
(***************************************************************************)
Running(task) == task.pc \in {"idle", "polling", "pulled"}

\* the events emitted under the event name of watch_id
EmittedUnder(watch_id) ==
    {i \in DOMAIN emitted : emitted[i].name = watch_id}

\* C12: every call of start_watch_resources yields an id no other call
\* yielded, no two tasks are ever spawned under one id (so at most one runs
\* per id), and a task that was cancelled or has ended never runs again.
C12_FreshIdsOneTaskPerId ==
    /\ [](/\ Cardinality(DOMAIN starts \cup DOMAIN returned) = uuids
          /\ \A t1, t2 \in DOMAIN tasks :
                t1 # t2 => tasks[t1].watch_id # tasks[t2].watch_id
          /\ \A w \in DOMAIN registry :
                registry[w] \in DOMAIN tasks /\ tasks[registry[w]].watch_id = w)
    /\ [][\A t \in DOMAIN tasks :
             ~Running(tasks[t]) =>
                 (t \in DOMAIN tasks' /\ tasks'[t].pc = tasks[t].pc)]_vars

C12_Witness ==
    /\ Len(tasks) = 2
    /\ tasks[1].watch_id = "w1" /\ tasks[1].pc = "cancelled"
    /\ tasks[2].watch_id = "w2" /\ Running(tasks[2])
    /\ DOMAIN registry = {"w2"}

\* C13: no event tagged with an id is emitted after stop_watch_resources
\* has returned for that id.
C13_NoEmissionAfterStop ==
    \A i \in DOMAIN emitted : ~emitted[i].late

\* C14: stop_watch_resources on an id without registry entry (unknown id,
\* second call) changes nothing; on a registered id it removes the entry and
\* then requests cancellation of the entry's task, whatever the state of the
\* task, and a task that has ended on its own stays as it is.
C14_StopIsIdempotent ==
    [][\A w \in WatchIds \cup {UnknownId} :
          /\ (/\ w \notin DOMAIN registry
              /\ w \notin DOMAIN stopping
              /\ w \in stopped'
              /\ w \notin stopped)
             => /\ registry' = registry
                /\ tasks' = tasks
                /\ emitted' = emitted
                /\ stopping' = stopping
          /\ (w \in DOMAIN registry /\ w \notin DOMAIN registry')
             => /\ w \in DOMAIN stopping'
                /\ stopping'[w] = registry[w]
                /\ tasks' = tasks
          /\ (w \in DOMAIN stopping /\ w \notin DOMAIN stopping')
             => /\ w \notin DOMAIN registry'
                /\ w \in stopped'
                /\ tasks'[stopping[w]].abort
                /\ tasks'[stopping[w]].pc = tasks[stopping[w]].pc
                /\ \A t \in DOMAIN tasks : t # stopping[w] => tasks'[t] = tasks[t]
                /\ emitted' = emitted]_vars

C14_Witness ==
    /\ {UnknownId, "w1", "w2"} \subseteq stopped
    /\ "w2" \in DOMAIN stopping
    /\ "w1" \notin DOMAIN registry
    /\ Len(tasks) >= 1
    /\ tasks[1].watch_id = "w1"
    /\ tasks[1].pc = "finished"
    /\ tasks[1].abort

\* C15: every registry entry belongs to a running task.
C15_NoEntryForEndedTask ==
    \A w \in DOMAIN registry : Running(tasks[registry[w]])

\* C16: whenever cancellation of a task has been requested, the registry
\* holds no entry for the task's watch id.
C16_EntryGoneBeforeCancellation ==
    \A t \in DOMAIN tasks :
        tasks[t].abort => tasks[t].watch_id \notin DOMAIN registry

C16_Witness ==
    \E t \in DOMAIN tasks :
        /\ tasks[t].abort
        /\ tasks[t].pc = "pulled"
        /\ tasks[t].watch_id \notin DOMAIN registry
        /\ DOMAIN registry # {}

\* the step in which task t leaves the item it pulled
Processes(t) ==
    /\ tasks[t].pc = "pulled"
    /\ t \in DOMAIN tasks'
    /\ tasks'[t].pc # "pulled"

C20_StartReturnsWithoutItems ==
    \A w \in WatchIds : (w \in DOMAIN starts) ~> (w \in DOMAIN returned)

C20_Witness ==
    /\ "w1" \in DOMAIN returned
    /\ returned["w1"] = "task"
    /\ "w1" \in DOMAIN registry
    /\ tasks[registry["w1"]].pc = "idle"
    /\ tasks[registry["w1"]].seq = 0
    /\ emitted = <<>>

(***************************************************************************)
(* get_resource_detail: the events of the detail.                          *)
(***************************************************************************)
\* the kinds the events of which the detail carries
EventBearingKinds ==
    {Str(k) : k \in {"Pod", "Deployment", "ReplicaSet", "StatefulSet",
                      "DaemonSet", "Service", "Job", "CronJob", "ConfigMap",
                      "Secret", "PersistentVolume", "PersistentVolumeClaim"}}

\* the Events a list under the scope ns returns
ListedEvents(cl, ns) ==
    {e \in cl : e.type = Typed("Event") /\ (ns = None \/ e.ns = ns)}

\* C21: for an event-bearing kind, the events that get_resource_detail(kind,
\* name, namespace) returns are exactly the listed Events whose
\* involvedObject has that kind, that name and that namespace, an absent
\* namespace on both sides counting as equal.
C21_EventsAreThoseOfTheObject ==
    (/\ resp.cmd = "get"
     /\ resp.kind \in EventBearingKinds
     /\ resp.result.ok)
    => resp.result.events =
           {ToValue(e) : e \in
               {l \in ListedEvents(resp.before, resp.ns) :
                   /\ Str(l.involved.kind) = resp.kind
                   /\ l.involved.name = resp.name
                   /\ l.involved.namespace = resp.ns}}

\* C21 witness: the detail of Pod x in namespace a carries the one event
\* about it, and none of the listed events about another name, another kind
\* or another namespace
C21_Witness ==
    /\ resp.cmd = "get"
    /\ resp.kind = Str("Pod") /\ resp.name = "x" /\ resp.ns = "a"
    /\ {EventObj("a", "e2", "Pod", "y", "a"), EventObj("a", "e3", "Widget", "x", "a"),
        EventObj("a", "e4", "Pod", "x", "b")}
           \subseteq ListedEvents(resp.before, "a")
    /\ resp.result.ok
    /\ resp.result.events = {ToValue(EventObj("a", "e1", "Pod", "x", "a"))}

\* C22: for every kind outside the event-bearing set, get_resource_detail
\* returns an empty event list, issues no list of Events, and never fails
\* because of events.
C22_NoEventsForOtherKinds ==
    (/\ resp.cmd = "get"
     /\ resp.kind \notin EventBearingKinds)
    => /\ resp.result.events = {}
       /\ \A i \in DOMAIN resp.result.calls :
              ~(/\ resp.result.calls[i].verb = "list"
                /\ resp.result.calls[i].type = Typed("Event"))
       /\ resp.fail = "second" =>
              resp.result.err \notin {ServerFailure, SerializationError}

\* C22 witness: the detail of Node x is returned without events while the
\* cluster holds an Event about Node x and a list of Events would fail
C22_Witness ==
    /\ resp.cmd = "get"
    /\ resp.kind = Str("Node") /\ resp.name = "x" /\ resp.ns = None
    /\ resp.fail = "second"
    /\ EventObj("a", "e1", "Node", "x", None) \in resp.before
    /\ resp.result.ok
    /\ resp.result.items = {ToValue(Obj(Typed("Node"), None, "x"))}
    /\ resp.result.events = {}

(***************************************************************************)
(* Serialization failures.                                                 *)
(***************************************************************************)
\* the API type a kind of list_resources lists, and the scope of the list
ListTarget(kind, ns) ==
    IF kind = WidgetKind THEN [type |-> WidgetType, scope |-> ns]
    ELSE IF kind = GadgetKind THEN [type |-> GadgetType, scope |-> None]
    ELSE IF IsArm(kind, DOMAIN ListNamespacedKinds)
    THEN [type |-> Typed(ListNamespacedKinds[kind[1]]), scope |-> ns]
    ELSE [type |-> Typed(ListClusterKinds[kind[1]]), scope |-> None]

ListAccepts(kind) ==
    \/ IsArm(kind, DOMAIN ListNamespacedKinds \cup DOMAIN ListClusterKinds)
    \/ kind \in {WidgetKind, GadgetKind}

\* C23: when one item of a bulk list cannot be serialized, list_resources
\* drops that item and returns the rest, for every kind it accepts, custom
\* resources included; when the single object of a get cannot be
\* serialized, get_resource_detail fails.
C23_ListDropsItemGetFails ==
    /\ (resp.cmd = "list" /\ ListAccepts(resp.kind) /\ resp.fail = "none")
       => /\ resp.result.ok
          /\ resp.result.items =
                 {ToValue(o) : o \in
                     {p \in resp.before :
                         /\ p.type = ListTarget(resp.kind, resp.ns).type
                         /\ \/ ListTarget(resp.kind, resp.ns).scope = None
                            \/ p.ns = ListTarget(resp.kind, resp.ns).scope
                         /\ p.serial}}
    /\ (/\ resp.cmd = "get"
        /\ resp.result.calls # <<>>
        /\ resp.fail = "none"
        /\ \E p \in resp.before :
               /\ p.type = resp.result.calls[1].type
               /\ p.ns = resp.result.calls[1].ns
               /\ p.name = resp.name
               /\ ~p.serial)
       => /\ ~resp.result.ok
          /\ resp.result.err = SerializationError

(***************************************************************************)
(* list_crd_groups: the CRDs of one listing, grouped and sorted.           *)
(***************************************************************************)
\* the strings that are compared, in the ascending order of String::cmp
Ascending == <<"", "Alpha", "Beta", "a.io", "b.io">>

GreaterNever(a, b) == FALSE

\* a.cmp(&b) == Ordering::Greater
Greater(a, b) ==
    \E i, j \in DOMAIN Ascending : Ascending[i] = a /\ Ascending[j] = b /\ i > j

\* a CustomResourceDefinition: spec.group, spec.names, spec.scope and
\* spec.versions
Crd(group, plural, kind, versions) ==
    [group |-> group, plural |-> plural, kind |-> kind, scope |-> "Namespaced",
     versions |-> versions]

CrdVersion(name, served) == [name |-> name, served |-> served]

CrdVersionLists ==
    {<<>>,
     <<CrdVersion("v1", FALSE)>>,
     <<CrdVersion("v1", FALSE), CrdVersion("v2", TRUE), CrdVersion("v3", TRUE)>>}

\* the CRDs a cluster can hold
CrdChoices ==
    {Crd(g, p, k, vs) : g \in {"a.io", "b.io"}, p \in {"ps", "qs"},
                        k \in {"Alpha", "Beta"}, vs \in CrdVersionLists}

\* what list_crds returns: CRDs of distinct names (<plural>.<group>), in any
\* order
CrdListings ==
    {l \in UNION {[1..n -> CrdChoices] : n \in 0..MaxCrds} :
        \A i, j \in DOMAIN l :
            (l[i].group = l[j].group /\ l[i].plural = l[j].plural) => i = j}

FirstVersion(versions) ==
    IF versions = <<>> THEN "" ELSE versions[1].name

\* versions.iter().find(|v| v.served).map(|v| v.name.clone())
\*     .unwrap_or_default()
ServedVersion(versions) ==
    LET served == {i \in DOMAIN versions : versions[i].served}
    IN  IF served = {} THEN ""
        ELSE versions[CHOOSE i \in served : \A j \in served : i <= j].name

CrdResourceInfo(crd) ==
    [kind |-> crd.kind, plural |-> crd.plural,
     version |-> ServedVersion(crd.versions), scope |-> crd.scope,
     group |-> crd.group]

\* groups.entry(group).or_default().push(info), for the CRDs in order
RECURSIVE Grouped(_)
Grouped(crds) ==
    IF crds = <<>> THEN <<>>
    ELSE LET rest == Grouped(SubSeq(crds, 1, Len(crds) - 1))
             crd == crds[Len(crds)]
         IN  IF crd.group \in DOMAIN rest
             THEN Put(rest, crd.group,
                      Append(rest[crd.group], CrdResourceInfo(crd)))
             ELSE Put(rest, crd.group, <<CrdResourceInfo(crd)>>)

\* sort_by(|a, b| a.key.cmp(&b.key)): a stable sort
RECURSIVE SortBy(_, _)
SortBy(xs, key) ==
    IF xs = <<>> THEN <<>>
    ELSE LET sorted == SortBy(SubSeq(xs, 1, Len(xs) - 1), key)
             x == xs[Len(xs)]
             before == {i \in DOMAIN sorted : ~Greater(sorted[i][key], x[key])}
             n == Cardinality(before)
         IN  SubSeq(sorted, 1, n) \o <<x>> \o SubSeq(sorted, n + 1, Len(sorted))

\* groups.into_iter(): the entries of the map in an order the hasher picks
RECURSIVE IntoIter(_)
IntoIter(map) ==
    IF DOMAIN map = {} THEN {<<>>}
    ELSE UNION {{<<[group |-> g, resources |-> map[g]]>> \o rest :
                    rest \in IntoIter(RemoveKey(map, g))} : g \in DOMAIN map}

\* list_crd_groups, from the listing on
ListCrdGroupsOf(entries) ==
    SortBy([i \in DOMAIN entries |->
               [group |-> entries[i].group,
                resources |-> SortBy(entries[i].resources, "kind")]],
           "group")

\* list_crd_groups on the CRDs that list_crds returned
ListCrdGroups ==
    /\ invoked.cmd = "list_crd_groups"
    /\ ~invoked.done
    /\ \E entries \in IntoIter(Grouped(invoked.input)) :
          invoked' = [invoked EXCEPT !.output = ListCrdGroupsOf(entries),
                                     !.done = TRUE]
    /\ UNCHANGED <<cacheVars, dispatchVars, parseVars, lockVars, terminalVars, watchVars>>

InitCrd ==
    /\ CacheInit
    /\ LocksIdle
    /\ TerminalIdle
    /\ DispatchIdle
    /\ ParseIdle
    /\ WatchInit
    /\ \E crds \in CrdListings :
          invoked = [cmd |-> "list_crd_groups", input |-> crds, output |-> <<>>,
                     done |-> FALSE]

SpecCrd == InitCrd /\ [][ListCrdGroups]_vars

\* a is strictly before b in the order of strings
Before(a, b) ==
    \E i, j \in DOMAIN Ascending : Ascending[i] = a /\ Ascending[j] = b /\ i < j

\* the resources of every group of a result
AllResources(groups) ==
    UNION {{groups[i].resources[j] : j \in DOMAIN groups[i].resources} :
              i \in DOMAIN groups}

\* C24: list_crd_groups returns one group per distinct API group of the
\* listed CRDs, the groups in ascending order of group name, the resources
\* of a group in ascending order of kind name, and every CRD of the listing
\* exactly once, under its own group.
C24_GroupedAndSorted ==
    (invoked.cmd = "list_crd_groups" /\ invoked.done) =>
        LET crds == invoked.input
            out == invoked.output
        IN  /\ {out[i].group : i \in DOMAIN out} = {crds[i].group : i \in DOMAIN crds}
            /\ \A i, j \in DOMAIN out :
                   i < j => Before(out[i].group, out[j].group)
            /\ \A g \in DOMAIN out :
                   /\ \A i, j \in DOMAIN out[g].resources :
                          i < j => ~Before(out[g].resources[j].kind,
                                           out[g].resources[i].kind)
                   /\ \A i \in DOMAIN out[g].resources :
                          out[g].resources[i].group = out[g].group
                   /\ Len(out[g].resources) =
                          Cardinality({i \in DOMAIN crds : crds[i].group = out[g].group})
            /\ \A c \in DOMAIN crds :
                   \E r \in AllResources(out) :
                       /\ r.group = crds[c].group /\ r.plural = crds[c].plural
                       /\ r.kind = crds[c].kind /\ r.scope = crds[c].scope

\* C24 witness: a listing that names group b.io before a.io and, within
\* a.io, kind Beta before Alpha comes back with a.io first and Alpha first
C24_Witness ==
    /\ invoked.cmd = "list_crd_groups" /\ invoked.done
    /\ Len(invoked.input) = 3
    /\ invoked.input[1].group = "b.io"
    /\ invoked.input[2].group = "a.io" /\ invoked.input[2].kind = "Beta"
    /\ invoked.input[3].group = "a.io" /\ invoked.input[3].kind = "Alpha"
    /\ Len(invoked.output) = 2
    /\ invoked.output[1].group = "a.io"
    /\ invoked.output[1].resources[1].plural = invoked.input[3].plural
    /\ invoked.output[1].resources[2].plural = invoked.input[2].plural
    /\ invoked.output[2].resources[1].plural = invoked.input[1].plural

\* C25: the version reported for a CRD is the name of its first served
\* version in declaration order, and the empty string when it has no served
\* version; it is computed for every CRD of the listing.
C25_FirstServedVersion ==
    (invoked.cmd = "list_crd_groups" /\ invoked.done) =>
        \A c \in DOMAIN invoked.input :
            LET versions == invoked.input[c].versions
            IN  \E r \in AllResources(invoked.output) :
                    /\ r.group = invoked.input[c].group
                    /\ r.plural = invoked.input[c].plural
                    /\ (\A i \in DOMAIN versions : ~versions[i].served)
                           => r.version = ""
                    /\ \A i \in DOMAIN versions :
                           (/\ versions[i].served
                            /\ \A j \in 1..(i - 1) : ~versions[j].served)
                           => r.version = versions[i].name

\* C25 witness: a CRD whose first version is not served and whose second and
\* third are is reported with the second, next to a CRD without a served
\* version, reported with the empty string
C25_Witness ==
    /\ invoked.cmd = "list_crd_groups" /\ invoked.done
    /\ \E r, q \in AllResources(invoked.output) :
           /\ r.version = "v2"
           /\ q.version = ""
           /\ \E c \in DOMAIN invoked.input :
                  /\ invoked.input[c].plural = q.plural
                  /\ invoked.input[c].group = q.group
                  /\ invoked.input[c].versions = <<CrdVersion("v1", FALSE)>>

(***************************************************************************)
(* rollout_restart_deployment: a JSON merge patch of one Deployment.       *)
(***************************************************************************)
\* JSON values: a string, or an object of members
JsonString(v) == [object |-> FALSE, string |-> v, members |-> <<>>]
JsonObject(members) == [object |-> TRUE, string |-> "", members |-> members]

RestartedAt == "kubectl.kubernetes.io/restartedAt"

RestartPatchOfDeployment(timestamp) ==
    JsonObject("metadata" :> JsonObject("annotations" :>
        JsonObject(RestartedAt :> JsonString(timestamp))))

\* the patch of rollout_restart_deployment
RestartPatch(timestamp) ==
    JsonObject("spec" :> JsonObject("template" :> JsonObject("metadata" :>
        JsonObject("annotations" :>
            JsonObject(RestartedAt :> JsonString(timestamp))))))

\* Patch::Merge applied by the API server (RFC 7386; the patch holds no null)
RECURSIVE MergePatch(_, _)
MergePatch(target, patch) ==
    IF ~patch.object THEN patch
    ELSE LET base == IF target.object THEN target.members ELSE <<>>
         IN  JsonObject(
                 [k \in DOMAIN base \cup DOMAIN patch.members |->
                     IF k \notin DOMAIN patch.members THEN base[k]
                     ELSE IF k \in DOMAIN base
                     THEN MergePatch(base[k], patch.members[k])
                     ELSE MergePatch(JsonString(""), patch.members[k])])

\* the pod template metadata a Deployment can have
TemplateChoices ==
    {"spec" :> JsonString("containers"),
     "spec" :> JsonString("containers")
        @@ "metadata" :> JsonObject("labels" :> JsonString("app")),
     "spec" :> JsonString("containers")
        @@ "metadata" :> JsonObject("annotations" :>
               JsonObject("prometheus.io/scrape" :> JsonString("true"))),
     "spec" :> JsonString("containers")
        @@ "metadata" :> JsonObject(
               "labels" :> JsonString("app")
               @@ "annotations" :> JsonObject(
                      RestartedAt :> JsonString("t0")
                      @@ "prometheus.io/scrape" :> JsonString("true")))}

DeploymentChoices ==
    {JsonObject(
        "metadata" :> JsonObject("annotations" :>
            JsonObject("deployment.kubernetes.io/revision" :> JsonString("1")))
        @@ "spec" :> JsonObject("replicas" :> JsonString("3")
                                @@ "template" :> JsonObject(t))) :
        t \in TemplateChoices}

DeploymentKeys == {<<"a", "x">>, <<"b", "x">>}

\* the Deployments of a cluster, by namespace and name
DeploymentSets ==
    UNION {[keys -> DeploymentChoices] : keys \in SUBSET DeploymentKeys}

\* RealK8sClient::rollout_restart_deployment against the Deployments cl
RolloutRestart(cl, name, namespace, timestamp, failed) ==
    IF failed THEN [ok |-> FALSE, err |-> ServerFailure, cl |-> cl]
    ELSE IF <<namespace, name>> \notin DOMAIN cl
    THEN [ok |-> FALSE, err |-> NotFound(name), cl |-> cl]
    ELSE [ok |-> TRUE, err |-> NoError,
          cl |-> [cl EXCEPT ![<<namespace, name>>] =
                     MergePatch(@, RestartPatch(timestamp))]]

RolloutRestartDeployment ==
    /\ invoked.cmd = "rollout_restart_deployment"
    /\ ~invoked.done
    /\ invoked' = [invoked EXCEPT
           !.output = RolloutRestart(invoked.input.cl, invoked.input.name,
                                     invoked.input.namespace, invoked.input.now,
                                     invoked.input.failed),
           !.done = TRUE]
    /\ UNCHANGED <<cacheVars, dispatchVars, parseVars, lockVars, terminalVars, watchVars>>

InitRollout ==
    /\ CacheInit
    /\ LocksIdle
    /\ TerminalIdle
    /\ DispatchIdle
    /\ ParseIdle
    /\ WatchInit
    /\ \E cl \in DeploymentSets, name \in NameInputs, namespace \in Namespaces,
          failed \in BOOLEAN :
          invoked = [cmd |-> "rollout_restart_deployment",
                     input |-> [cl |-> cl, name |-> name, namespace |-> namespace,
                                now |-> "t1", failed |-> failed],
                     output |-> <<>>, done |-> FALSE]

SpecRollout == InitRollout /\ [][RolloutRestartDeployment]_vars

\* the strings of a JSON value, each with the path of member names to it
RECURSIVE Leaves(_, _)
Leaves(json, path) ==
    IF ~json.object THEN {<<path, json.string>>}
    ELSE UNION {Leaves(json.members[k], Append(path, k)) : k \in DOMAIN json.members}

RestartedAtPath == <<"spec", "template", "metadata", "annotations", RestartedAt>>

\* C26: rollout_restart_deployment changes only the annotation
\* kubectl.kubernetes.io/restartedAt of the pod template metadata of the
\* Deployment it names: every other annotation and field of that
\* Deployment, and every other object, is as it was.
C26_OnlyRestartedAtChanges ==
    (invoked.cmd = "rollout_restart_deployment" /\ invoked.done) =>
        LET old == invoked.input.cl
            new == invoked.output.cl
            key == <<invoked.input.namespace, invoked.input.name>>
        IN  /\ DOMAIN new = DOMAIN old
            /\ \A k \in DOMAIN old \ {key} : new[k] = old[k]
            /\ ~invoked.output.ok => new = old
            /\ invoked.output.ok =>
                   /\ <<RestartedAtPath, invoked.input.now>> \in Leaves(new[key], <<>>)
                   /\ {l \in Leaves(new[key], <<>>) : l[1] # RestartedAtPath}
                          = {l \in Leaves(old[key], <<>>) : l[1] # RestartedAtPath}

\* C26 witness: a Deployment with another template annotation and an older
\* restartedAt is restarted next to a Deployment of the same name in
\* another namespace
C26_Witness ==
    /\ invoked.cmd = "rollout_restart_deployment" /\ invoked.done
    /\ invoked.output.ok
    /\ DOMAIN invoked.input.cl = DeploymentKeys
    /\ <<RestartedAtPath, "t0">>
           \in Leaves(invoked.input.cl[<<"a", "x">>], <<>>)
    /\ invoked.input.namespace = "a"
    /\ <<RestartedAtPath, "t1">>
           \in Leaves(invoked.output.cl[<<"a", "x">>], <<>>)
    /\ <<RestartedAtPath, "t0">>
           \notin Leaves(invoked.output.cl[<<"a", "x">>], <<>>)
    /\ <<<<"spec", "template", "metadata", "annotations", "prometheus.io/scrape">>,
          "true">> \in Leaves(invoked.output.cl[<<"a", "x">>], <<>>)

(***************************************************************************)
(* The mock provider: get_or_create_client and MockK8sClient.              *)
(***************************************************************************)
\* values of the environment variable USE_MOCK; None when it is not set
UseMockValues == {None, "true", "false", "1", "TRUE"}

\* env::var("USE_MOCK").unwrap_or_else(|_| "false".to_string())
\*     .parse::<bool>().unwrap_or(false)
UseMock(value) == value = "true"

MockNamespaceInputs == {None, "default", "other-ns"}

MockListKinds == {"Pods", "Events"}

\* MockK8sClient::list_pods and MockK8sClient::list_events
MockList(kind, namespace) ==
    IF kind = "Pods"
    THEN {Obj(Typed("Pod"), "default", "web-app-1"),
          Obj(Typed("Pod"), "default", "api-server-1")}
    ELSE {EventObj("default", "web-app-1.1234567890", None, None, None)}

\* what a command took its cluster access from, and what the mock listed
Access(command, namespace, provider, items) ==
    [command |-> command, namespace |-> namespace, provider |-> provider,
     items |-> items]

NoAccess == Access("none", None, "none", {})

\* list_resources up to the provider: the prologue, then
\* get_or_create_client, which returns the mock provider or goes on to
\* get_or_create_raw_client
GetOrCreateClient(p) ==
    /\ invoked.cmd = "provider"
    /\ procs[p].pc = "idle"
    /\ path_lock = "free"
    /\ \E ctx \in Contexts, kind \in MockListKinds, namespace \in MockNamespaceInputs :
          LET started == [IdleProc EXCEPT !.context = ctx, !.kc_path = kubeconfig_path]
          IN  IF UseMock(invoked.input)
              THEN /\ procs' = [procs EXCEPT ![p] = [started EXCEPT !.pc = "done"]]
                   /\ invoked' = [invoked EXCEPT !.output[p] =
                          Access(kind, namespace, "mock",
                                 SerializeResources(MockList(kind, namespace)))]
              ELSE /\ procs' = [procs EXCEPT ![p] = [started EXCEPT !.pc = "lookup"]]
                   /\ invoked' = [invoked EXCEPT !.output[p] =
                          Access(kind, namespace, "real", {})]
    /\ UNCHANGED <<now, kubeconfig_path, path_lock, pool, constructions, lastRet>>
    /\ UNCHANGED <<dispatchVars, parseVars, lockVars, terminalVars, watchVars>>

\* start_watch_resources up to the client: the prologue, then
\* get_or_create_raw_client
StartWatchClient(p) ==
    /\ invoked.cmd = "provider"
    /\ procs[p].pc = "idle"
    /\ path_lock = "free"
    /\ \E ctx \in Contexts, namespace \in MockNamespaceInputs :
          /\ procs' = [procs EXCEPT ![p] =
                 [IdleProc EXCEPT !.pc = "lookup", !.context = ctx,
                                  !.kc_path = kubeconfig_path]]
          /\ invoked' = [invoked EXCEPT !.output[p] =
                 Access("start_watch_resources", namespace, "real", {})]
    /\ UNCHANGED <<now, kubeconfig_path, path_lock, pool, constructions, lastRet>>
    /\ UNCHANGED <<dispatchVars, parseVars, lockVars, terminalVars, watchVars>>

MockNext ==
    \/ \E p \in Procs : GetOrCreateClient(p)
    \/ \E p \in Procs : StartWatchClient(p)
    \/ \E p \in Procs : Lookup(p)
    \/ \E p \in Procs : Construct(p)
    \/ \E p \in Procs : Insert(p)
    \/ \E p \in Procs : Return(p)

\* the process starts with USE_MOCK set or not; nothing in the program sets
\* it afterwards
InitMock ==
    /\ CacheInit
    /\ LocksIdle
    /\ TerminalIdle
    /\ DispatchIdle
    /\ ParseIdle
    /\ WatchInit
    /\ \E value \in UseMockValues :
          invoked = [cmd |-> "provider", input |-> value,
                     output |-> [p \in Procs |-> NoAccess], done |-> FALSE]

SpecMock == InitMock /\ [][MockNext]_vars

\* C27: the mock provider follows the scope rules of the real provider: a
\* list with namespace ns returns only objects whose namespace is ns, and a
\* list without namespace returns the objects of all namespaces.
C27_MockListScope ==
    invoked.cmd = "provider" =>
        \A p \in Procs :
            LET a == invoked.output[p]
            IN  a.provider = "mock" =>
                    /\ a.namespace # None =>
                           \A o \in a.items : o.metadata.namespace = a.namespace
                    /\ a.namespace = None =>
                           a.items = SerializeResources(MockList(a.command, None))

\* C28: when the mock toggle is on, every command, start_watch_resources
\* included, takes its cluster access from the mock provider: no real
\* client is constructed and nothing is inserted into the client pool.
C28_MockOnNoRealClient ==
    (invoked.cmd = "provider" /\ invoked.input = "true") =>
        /\ \A p \in Procs : invoked.output[p].provider # "real"
        /\ constructions = 0
        /\ pool = <<>>

(***************************************************************************)
(* parse_context_id.  A context id is a sequence of atoms: the separators  *)
(* "_" and ":", the prefix "cluster/", and runs of other characters.       *)
(***************************************************************************)
\* str::split(sep)
RECURSIVE Split(_, _)
Split(s, sep) ==
    IF \A i \in DOMAIN s : s[i] # sep THEN <<s>>
    ELSE LET i == CHOOSE j \in DOMAIN s :
                      s[j] = sep /\ \A k \in 1..(j - 1) : s[k] # sep
         IN  <<SubSeq(s, 1, i - 1)>> \o Split(SubSeq(s, i + 1, Len(s)), sep)

\* [&str]::join(sep)
RECURSIVE Join(_, _)
Join(parts, sep) ==
    IF Len(parts) = 0 THEN <<>>
    ELSE IF Len(parts) = 1 THEN parts[1]
    ELSE parts[1] \o <<sep>> \o Join(Tail(parts), sep)

\* str::trim_start_matches("cluster/"): the prefix is removed repeatedly
RECURSIVE TrimStartMatches(_)
TrimStartMatches(s) ==
    IF Len(s) >= 1 /\ s[1] = "cluster/" THEN TrimStartMatches(Tail(s)) ELSE s

GkePrefix == <<"gke", "_">>
EksPrefix == <<"arn", ":", "aws", ":", "eks", ":">>

\* str::starts_with
StartsWith(s, prefix) ==
    Len(s) >= Len(prefix) /\ SubSeq(s, 1, Len(prefix)) = prefix

Parsed(provider, project, region, name) ==
    [provider |-> provider, project |-> project, region |-> region, name |-> name]

\* parse_context_id
ParseContextId(context_id) ==
    LET other == Parsed("Other", <<>>, <<>>, context_id)
    IN  IF StartsWith(context_id, GkePrefix)
        THEN LET parts == Split(context_id, "_")
             IN  IF Len(parts) >= 4
                 THEN Parsed("GKE", parts[2], parts[3],
                             Join(SubSeq(parts, 4, Len(parts)), "_"))
                 ELSE other
        ELSE IF StartsWith(context_id, EksPrefix)
        THEN LET parts == Split(context_id, ":")
             IN  IF Len(parts) >= 6
                 THEN Parsed("EKS", parts[5], parts[4], TrimStartMatches(parts[6]))
                 ELSE other
        ELSE other

\* the fields a context id is written from: none holds a separator
GkeFields == {<<>>, <<"w">>, <<"v">>}
EksFields == {<<>>, <<"w">>, <<"cluster/", "w">>, <<"cluster/", "cluster/", "w">>}

FieldLists(fields) == UNION {[1..n -> fields] : n \in 0..MaxParts}

\* context ids: "gke_" and "arn:aws:eks:" followed by fields, and names of
\* neither prefix
ContextIds ==
    {[shape |-> "gke", fields |-> fs, text |-> GkePrefix \o Join(fs, "_")] :
        fs \in FieldLists(GkeFields)}
    \cup {[shape |-> "eks", fields |-> fs, text |-> EksPrefix \o Join(fs, ":")] :
             fs \in FieldLists(EksFields)}
    \cup {[shape |-> "name", fields |-> <<>>, text |-> t] :
             t \in {<<>>, <<"w">>, <<"gke">>, <<"gke", "w", "_", "v", "_", "w", "_", "v">>,
                     <<"arn", ":", "aws", ":", "w", ":", "w", ":", "v", ":", "cluster/", "w">>,
                     <<"w", "_", "v">>}}

ParseContextIdCall ==
    /\ invoked.cmd = "parse_context_id"
    /\ ~invoked.done
    /\ invoked' = [invoked EXCEPT !.output = ParseContextId(invoked.input.text),
                                  !.done = TRUE]
    /\ UNCHANGED <<cacheVars, dispatchVars, parseVars, lockVars, terminalVars, watchVars>>

InitContextId ==
    /\ CacheInit
    /\ LocksIdle
    /\ TerminalIdle
    /\ DispatchIdle
    /\ ParseIdle
    /\ WatchInit
    /\ \E id \in ContextIds :
          invoked = [cmd |-> "parse_context_id", input |-> id, output |-> <<>>,
                     done |-> FALSE]

SpecContextId == InitContextId /\ [][ParseContextIdCall]_vars

\* C29: parse_context_id maps gke_<project>_<region>_<name> to (GKE,
\* project, region, name), arn:aws:eks:<region>:<account>:cluster/<name> to
\* (EKS, account, region, name), and every other string s to (Other, '',
\* '', s); it returns a result for every input.  (<name> of a GKE id is
\* read as everything after the third separator.)
C29_ContextIdShapes ==
    (invoked.cmd = "parse_context_id" /\ invoked.done) =>
        LET id == invoked.input
            fs == id.fields
        IN  IF id.shape = "gke" /\ Len(fs) >= 3
            THEN invoked.output =
                     Parsed("GKE", fs[1], fs[2], Join(SubSeq(fs, 3, Len(fs)), "_"))
            ELSE IF /\ id.shape = "eks" /\ Len(fs) = 3
                    /\ Len(fs[3]) >= 1 /\ fs[3][1] = "cluster/"
            THEN invoked.output = Parsed("EKS", fs[2], fs[1], Tail(fs[3]))
            ELSE invoked.output = Parsed("Other", <<>>, <<>>, id.text)

(***************************************************************************)
(* get_cluster_stats.                                                      *)
(***************************************************************************)
NodeCondition(type_, status) == [type_ |-> type_, status |-> status]

\* a Node: status is None, status.conditions is None, or the conditions
NodeChoices ==
    {[status |-> FALSE, conditions |-> FALSE, list |-> <<>>],
     [status |-> TRUE, conditions |-> FALSE, list |-> <<>>]}
    \cup {[status |-> TRUE, conditions |-> TRUE, list |-> l] :
             l \in {<<>>,
                    <<NodeCondition("Ready", "True")>>,
                    <<NodeCondition("Ready", "False")>>,
                    <<NodeCondition("MemoryPressure", "True")>>,
                    <<NodeCondition("MemoryPressure", "False"),
                      NodeCondition("Ready", "True")>>}}

\* a Pod: status is None, status.phase is None, or the phase
PodChoices ==
    {[status |-> FALSE, phase |-> None], [status |-> TRUE, phase |-> None],
     [status |-> TRUE, phase |-> "Running"], [status |-> TRUE, phase |-> "Pending"]}

Listings(choices) == UNION {[1..n -> choices] : n \in 0..MaxListed}

IsReadyType(node) ==
    node.status /\ node.conditions
        /\ \E i \in DOMAIN node.list : node.list[i].type_ = "Ready"

\* the filter of ready_nodes
IsReady(node) ==
    IF node.status /\ node.conditions
    THEN \E i \in DOMAIN node.list :
             node.list[i].type_ = "Ready" /\ node.list[i].status = "True"
    ELSE FALSE

\* the filter of running_pods
IsRunning(pod) ==
    (IF pod.status /\ pod.phase # None THEN pod.phase ELSE "") = "Running"

\* get_cluster_stats, from the client on
ClusterStats(in) ==
    IF in.failed THEN [ok |-> FALSE, total_nodes |-> 0, ready_nodes |-> 0,
                       total_pods |-> 0, running_pods |-> 0, namespace_count |-> 0,
                       deployment_count |-> 0, job_count |-> 0]
    ELSE [ok |-> TRUE,
          total_nodes |-> Len(in.nodes),
          ready_nodes |-> Cardinality({i \in DOMAIN in.nodes : IsReady(in.nodes[i])}),
          total_pods |-> Len(in.pods),
          running_pods |-> Cardinality({i \in DOMAIN in.pods : IsRunning(in.pods[i])}),
          namespace_count |-> Len(in.namespaces),
          deployment_count |-> Len(in.deployments),
          job_count |-> Len(in.jobs)]

GetClusterStats ==
    /\ invoked.cmd = "get_cluster_stats"
    /\ ~invoked.done
    /\ invoked' = [invoked EXCEPT !.output = ClusterStats(invoked.input),
                                  !.done = TRUE]
    /\ UNCHANGED <<cacheVars, dispatchVars, parseVars, lockVars, terminalVars, watchVars>>

InitStats ==
    /\ CacheInit
    /\ LocksIdle
    /\ TerminalIdle
    /\ DispatchIdle
    /\ ParseIdle
    /\ WatchInit
    /\ \E nodes \in Listings(NodeChoices), pods \in Listings(PodChoices),
          namespaces \in {<<"default">>, <<"default", "kube-system">>},
          others \in {<<>>, <<"x">>}, failed \in BOOLEAN :
          invoked = [cmd |-> "get_cluster_stats",
                     input |-> [nodes |-> nodes, pods |-> pods,
                                namespaces |-> namespaces, deployments |-> others,
                                jobs |-> <<>>, failed |-> failed],
                     output |-> <<>>, done |-> FALSE]

SpecStats == InitStats /\ [][GetClusterStats]_vars

\* C30: get_cluster_stats reports readyNodes = the number of listed nodes
\* with a condition of type Ready and status True, and runningPods = the
\* number of listed pods in phase Running, so readyNodes <= totalNodes and
\* runningPods <= totalPods; a node or pod without status counts as not
\* ready / not running.
C30_ReadyAndRunningCounts ==
    (invoked.cmd = "get_cluster_stats" /\ invoked.done /\ invoked.output.ok) =>
        LET nodes == invoked.input.nodes
            pods == invoked.input.pods
            out == invoked.output
        IN  /\ out.total_nodes = Len(nodes) /\ out.total_pods = Len(pods)
            /\ out.ready_nodes =
                   Cardinality({i \in DOMAIN nodes :
                       /\ nodes[i].status /\ nodes[i].conditions
                       /\ NodeCondition("Ready", "True")
                              \in {nodes[i].list[j] : j \in DOMAIN nodes[i].list}})
            /\ out.running_pods =
                   Cardinality({i \in DOMAIN pods :
                       pods[i].status /\ pods[i].phase = "Running"})
            /\ out.ready_nodes <= out.total_nodes
            /\ out.running_pods <= out.total_pods
            /\ (\A i \in DOMAIN nodes : ~nodes[i].status) => out.ready_nodes = 0
            /\ (\A i \in DOMAIN pods : ~pods[i].status) => out.running_pods = 0

\* C30 witness: of two nodes, one Ready=True and one Ready=False, and of
\* two pods, one Running and one without status, one each is counted
C30_Witness ==
    /\ invoked.cmd = "get_cluster_stats" /\ invoked.done /\ invoked.output.ok
    /\ invoked.input.nodes =
           <<[status |-> TRUE, conditions |-> TRUE,
              list |-> <<NodeCondition("Ready", "False")>>],
             [status |-> TRUE, conditions |-> TRUE,
              list |-> <<NodeCondition("MemoryPressure", "False"),
                         NodeCondition("Ready", "True")>>]>>
    /\ invoked.input.pods =
           <<[status |-> FALSE, phase |-> None], [status |-> TRUE, phase |-> "Running"]>>
    /\ invoked.output.total_nodes = 2 /\ invoked.output.ready_nodes = 1
    /\ invoked.output.total_pods = 2 /\ invoked.output.running_pods = 1

(***************************************************************************)
(* More properties of the client pool (checked under Spec).                *)
(***************************************************************************)
\* both calls have completed, each with a handle it constructed itself, for
\* one identity, and the pool was neither swept of it nor cleared since
BothMissed(p, q) ==
    /\ p # q
    /\ procs[p].pc = "done" /\ procs[q].pc = "done"
    /\ procs[p].ok /\ procs[q].ok
    /\ procs[p].constructed /\ procs[q].constructed
    /\ Identity(p) = Identity(q)
    /\ ~procs[p].disturbed /\ ~procs[q].disturbed

\* C31: when two concurrent get-or-create calls for one identity both miss,
\* each may construct a handle; after both have completed the pool has one
\* entry for the identity, holding one of the two handles, and a later
\* lookup within the TTL returns that entry's handle and constructs nothing.
C31_DoubleMissLeavesOneEntry ==
    /\ [](\A p, q \in Procs :
             BothMissed(p, q) =>
                 /\ ProcKey(p) \in DOMAIN pool
                 /\ pool[ProcKey(p)].client \in {procs[p].client, procs[q].client}
                 /\ \A k \in DOMAIN pool :
                        (k.context = procs[p].context
                         /\ k.kubeconfig_path = procs[p].kc_path) => k = ProcKey(p))
    /\ [][\A r \in Procs :
             (/\ procs[r].pc = "lookup"
              /\ procs'[r].pc # "lookup"
              /\ ProcKey(r) \in DOMAIN pool
              /\ Elapsed(pool[ProcKey(r)].created_at, now) < CLIENT_CACHE_TTL)
             => /\ procs'[r].pc = "done" /\ procs'[r].ok /\ procs'[r].hit
                /\ procs'[r].client = pool[ProcKey(r)].client
                /\ constructions' = constructions
                /\ pool'[ProcKey(r)] = pool[ProcKey(r)]]_vars

\* C31 witness: two calls for one identity have completed with two different
\* handles, each constructed by its call, and the pool holds the second
C31_Witness ==
    \E p, q \in Procs :
        /\ BothMissed(p, q)
        /\ procs[p].client.id = 1 /\ procs[q].client.id = 2
        /\ pool[ProcKey(p)].client = procs[q].client

\* C32: a get-or-create call whose credential resolution or client
\* construction fails returns the error and inserts no entry for its
\* identity, so the next call for the identity attempts construction again:
\* failures are never cached.
C32_FailuresAreNotCached ==
    /\ [][/\ \A p \in Procs :
                (procs[p].pc = "construct" /\ procs'[p].pc = "done")
                => /\ ~procs'[p].ok
                   /\ ~procs'[p].constructed
                   /\ pool' = pool
                   /\ lastRet' = lastRet
          /\ \A p \in Procs :
                (procs[p].pc = "done" /\ ~procs[p].ok /\ procs'[p].pc # "done")
                => procs'[p].pc = "idle" /\ pool' = pool
          /\ \A r \in Procs :
                (procs[r].pc = "lookup" /\ procs'[r].pc # "lookup"
                 /\ ProcKey(r) \notin DOMAIN pool)
                => procs'[r].pc = "construct"]_vars
    /\ [](\A k \in DOMAIN pool : pool[k].client.id \in 1..constructions)

\* C32 witness: one call has failed and returned its error, the pool holds
\* no entry of its identity, and another call for the identity has missed
\* and constructed a handle
C32_Witness ==
    \E p, q \in Procs :
        /\ procs[p].pc = "done" /\ ~procs[p].ok
        /\ Identity(p) = Identity(q)
        /\ ProcKey(p) \notin DOMAIN pool
        /\ procs[q].pc = "insert" /\ procs[q].constructed

\* C33: every entry of the client pool stored under key (context,
\* kubeconfigPath) holds a handle that was constructed from exactly that
\* context and that kubeconfig path, so a command that reads the new path
\* after a switch is never served a handle built under another path.
C33_EntryBuiltFromItsKey ==
    /\ \A k \in DOMAIN pool :
          /\ pool[k].client.context = k.context
          /\ pool[k].client.kubeconfig_path = k.kubeconfig_path
    /\ \A p \in Procs :
          (procs[p].pc = "done" /\ procs[p].ok)
          => /\ procs[p].client.context = procs[p].context
             /\ procs[p].client.kubeconfig_path = procs[p].kc_path

(***************************************************************************)
(* C34: no interleaving of set_kubeconfig_path with the other commands     *)
(* deadlocks.  Only set_kubeconfig_path holds both mutexes at once, no     *)
(* thread that awaits the construction of a client holds a mutex, and      *)
(* every thread blocked in Mutex::lock eventually holds the mutex it asked *)
(* for.                                                                    *)
(***************************************************************************)
Requests(t, m) == AtStep(t, "lock") /\ CurrentStep(t).mutex = m

Holds(t, m) == guards[m] = t

Handles == invoked.output

SwitchOrSweep ==
    \/ kubeconfig_path' # kubeconfig_path
    \/ path_lock' # path_lock
    \/ \E k \in DOMAIN pool : k \notin DOMAIN pool'

C35_WatchesOutliveThePool ==
    [][/\ SwitchOrSweep =>
              /\ registry' = registry
              /\ tasks' = tasks
              /\ stopping' = stopping
              /\ emitted' = emitted
              /\ Handles' = Handles
       /\ \A w \in DOMAIN Handles : Handles'[w] = Handles[w]
       /\ \A w \in DOMAIN registry' : ~tasks'[registry'[w]].abort]_vars

\* a registered watch emits on its handle after the path was switched, the
\* pool cleared and the entry of its handle gone from the pool
C35_Witness ==
    \E w \in DOMAIN registry :
        /\ w \in DOMAIN Handles
        /\ Handles[w].kubeconfig_path # kubeconfig_path
        /\ \A k \in DOMAIN pool : pool[k].client # Handles[w]
        /\ now >= CLIENT_CACHE_TTL
        /\ \E i \in DOMAIN emitted : emitted[i].name = w /\ ~emitted[i].late
        /\ tasks[registry[w]].pc = "pulled"

(***************************************************************************)
(* C36: the events of one watch are emitted in the order in which its      *)
(* stream delivered their items, each once and under the name of that      *)
(* watch's id only.  Under one name the positions of the items in their    *)
(* stream strictly increase along the emissions; every emission under an   *)
(* id is of an item that the stream of the task of that id delivered and   *)
(* that task has processed; and the step that processes an item of a task  *)
(* appends one event, of that position, under the id of that task.         *)
(***************************************************************************)
TasksOf(watch_id) == {t \in DOMAIN tasks : tasks[t].watch_id = watch_id}

ProcessedBy(t) ==
    IF tasks[t].pc = "pulled" THEN tasks[t].seq - 1 ELSE tasks[t].seq

Enumerated(kind, names) == \E n \in names : kind = <<n>>

CrPrefixed(kind) == kind # <<>> /\ Head(kind) = "cr:"

UnrecognisedBy(cmd, kind) ==
    /\ ~CrPrefixed(kind)
    /\ CASE cmd = "list" ->
                ~Enumerated(kind, DOMAIN ListNamespacedKinds \cup DOMAIN ListClusterKinds)
         [] cmd = "get" ->
                ~Enumerated(kind, GetNamespacedKinds \cup GetClusterKinds)
         [] cmd = "delete" ->
                ~Enumerated(kind, DeleteNamespacedKinds \cup DeleteClusterKinds)
         [] OTHER -> FALSE

C37_UnknownKindIsEmptyOk ==
    UnrecognisedBy(resp.cmd, resp.kind) =>
        /\ resp.result.calls = <<>>
        /\ resp.result.cluster = resp.before
        /\ resp.cmd = "list" =>
              /\ resp.result.ok
              /\ resp.result.items = {}
        /\ resp.cmd = "get" =>
              /\ resp.result.ok
              /\ resp.result.empty
              /\ resp.result.items = {}
              /\ resp.result.events = {}
        /\ resp.cmd = "delete" => ~resp.result.ok

\* a list of the singular name Pod on a cluster that holds Pods
C37_Witness ==
    /\ resp.cmd = "list"
    /\ resp.kind = Str("Pod")
    /\ \E o \in resp.before : o.type = Typed("Pod")
    /\ resp.result.ok
    /\ resp.result.items = {}

(***************************************************************************)
(* C38: every temporary kubeconfig that exists is the file of a session in *)
(* the registry, or of a create_terminal_session that has not returned     *)
(* yet: once the command has returned, a file it created is owned by a     *)
(* registered session or is deleted.                                       *)
(***************************************************************************)
OwnedBySession(f) ==
    \E id \in DOMAIN sessions : sessions[id].temp_kubeconfig = f

HeldByCreate(f) ==
    \E c \in Callers : Command(c).cmd = "create" /\ Command(c).temp_kubeconfig = f

C38_TempFilesOwnedOrDeleted ==
    \A f \in temp_files : OwnedBySession(f) \/ HeldByCreate(f)

(***************************************************************************)
(* C39: close_terminal_session on a registered id removes the session,     *)
(* kills its child and returns Ok; on any other id it returns Ok and       *)
(* changes nothing.  write_to_terminal on an id that is not registered     *)
(* returns "Session not found" and writes nothing.  A byte is written only *)
(* to a session that is registered and was never closed.                   *)
(***************************************************************************)
Returns(c, cmd) ==
    /\ Command(c)' # Command(c)
    /\ Command(c)'.pc = "idle"
    /\ Command(c)'.result.cmd = cmd

C39_CloseThenNoWrite ==
    [][\A c \in Callers :
          /\ Returns(c, "close") =>
                LET id == Command(c)'.result.session_id
                IN  /\ Command(c)'.result.ok
                    /\ id \notin DOMAIN sessions'
                    /\ IF id \in DOMAIN sessions
                       THEN /\ DOMAIN sessions' = DOMAIN sessions \ {id}
                            /\ id \in killed'
                       ELSE /\ sessions' = sessions
                            /\ killed' = killed
                            /\ temp_files' = temp_files
          /\ (Returns(c, "write") /\ Command(c).pc = "idle") =>
                /\ Command(c)'.result.err = "Session not found"
                /\ Command(c)'.result.session_id \notin DOMAIN sessions
          /\ (Returns(c, "write") /\ Command(c)'.result.session_id \notin DOMAIN sessions) =>
                /\ Command(c)'.result.err = "Session not found"
                /\ Command(c).pc = "idle"
          /\ Command(c)'.written > Command(c).written =>
                /\ Command(c).session_id \in DOMAIN sessions
                /\ Command(c).session_id \notin killed]_vars

\* a write to a session that was closed has returned "Session not found"
C39_Witness ==
    \E c \in Callers :
        /\ Command(c).pc = "idle"
        /\ Command(c).result.cmd = "write"
        /\ Command(c).result.err = "Session not found"
        /\ Command(c).result.session_id \in killed

(***************************************************************************)
(* C40: write_to_terminal terminates and releases the registry: a command  *)
(* that is in the write loop eventually returns, and a registry that is    *)
(* locked is eventually free again.                                        *)
(***************************************************************************)
C40_WriteTerminates ==
    /\ \A c \in Callers : (Command(c).pc = "writing") ~> (Command(c).pc = "idle")
    /\ (sessions_guard # Free) ~> (sessions_guard = Free)

TypeOK ==
    /\ now \in 0..MaxTime
    /\ kubeconfig_path \in Paths
    /\ DOMAIN pool \subseteq ClientCacheKey
    /\ constructions \in 0..MaxClients

====
